---------------------------- MODULE Spec2Model ----------------------------
(***************************************************************************)
(* A model of the lsimons-auto toolkit: the tmux agent session manager     *)
(* (spawn / close / kill over persisted session records), the session     *)
(* JSON serialisation, fuzzy workspace matching, the start_the_day daily   *)
(* gate, git worktree creation, the command dispatcher, the desktop        *)
(* background and desktop organisation actions, repository                 *)
(* synchronisation, the Technology Council meeting dates, the Google       *)
(* Drive backup, the Ghostty agent layout, CleanShot image compression,    *)
(* concurrent closes of one session and the listing of session files.      *)
(*                                                                         *)
(* Python strings that the code inspects character by character (pane     *)
(* ids, targets, org and repo names) are sequences of one-character        *)
(* strings.  An Optional value is None (the empty tuple) or Some(x).       *)
(***************************************************************************)
EXTENDS Integers, Sequences, FiniteSets, TLC

VARIABLES
    clock,          \* agent manager: wall clock in seconds (datetime.now)
    sessionFiles,   \* SESSIONS_DIR: session id -> JSON document or NoFile
    tmux,           \* tmux server: session name -> set of live pane handles
    nextPane,       \* tmux server: next pane handle (%N) to hand out
    worktrees,      \* disk: workspace -> worktree name -> directory state
    lastExit,       \* agent manager: exit status of the last invocation
    jSession,       \* session round trip: the in-memory session value
    jDisk,          \* session round trip: the saved JSON document or NoFile
    jLoaded,        \* session round trip: result of the last load
    fzInput,        \* fuzzy match: the arguments of the call
    fzResult,       \* fuzzy match: the outcome of the call
    today,          \* start_the_day: current calendar date
    stateFile,      \* start_the_day: ~/.start_the_day.toml content or NoFile
    procs,          \* start_the_day: per invocation state
    wtDisk,         \* ensure_worktree: worktree name -> directory state
    wtGitCalls,     \* ensure_worktree: number of git commands run so far
    wtLast,         \* ensure_worktree: the calls made so far, in order
    dispFiles,      \* dispatcher: names of the files in the actions directory
    dispArgv,       \* dispatcher: sys.argv[1:]
    dispPhase,      \* dispatcher: start, running (child launched) or exited
    dispChild,      \* dispatcher: the command line of the launched child, or None
    dispExit,       \* dispatcher: exit status of the dispatcher process, or None
    bgDir,          \* desktop background: the files of the backgrounds directory
    bgClock,        \* desktop background: wall clock in seconds
    bgLast,         \* desktop background: the last run, or None
    ffRepo,         \* try_fast_forward: the git state of the repository
    ffLast,         \* try_fast_forward: the last call, or None
    gsEnv,          \* git_sync: the user, the host, GitHub and the network
    gsDisk,         \* git_sync: ~/git, path -> absent, directory or repository
    gsLast,         \* git_sync: the last run, or None
    odDesk,         \* organize_desktop: the items on ~/Desktop, name -> entry
    odDirs,         \* organize_desktop: the year, month and day directories that exist
    odStored,       \* organize_desktop: the items in day directories, <<day, name>> -> entry
    odRun,          \* organize_desktop: the run in progress (dry_run, items still to do), or None
    odLast,         \* organize_desktop: the item organized last, or None
    tcToday,        \* tc: date.today(), as a proleptic Gregorian ordinal
    tcCall,         \* tc: the last call of get_next_monday and its outcome, or None
    agLast,         \* agent manager: what the last command sent to tmux panes, or None
    gdEnv,          \* gdrive_sync: the host name, /Volumes/LSData and the rclone installation
    gdLast,         \* gdrive_sync: the last run, or None
    ghWindows,      \* Ghostty agent: the panes of each Ghostty window opened so far
    ghLast,         \* Ghostty agent: the last call of create_layout and its result, or None
    cqImage,        \* CleanShot compression: how large the image encodes at each JPEG quality
    cqOut,          \* CleanShot compression: the file written by the last compression, or None
    closers,        \* concurrent close: the state of each running cmd_close process
    lsDir,          \* list_sessions: the *.json files of the sessions directory, time stamp -> text or NoFile
    lsLast          \* list_sessions: the outcome of the last call, or None

agentVars == <<clock, sessionFiles, tmux, nextPane, worktrees, lastExit>>
jsonVars  == <<jSession, jDisk, jLoaded>>
fuzzyVars == <<fzInput, fzResult>>
dayVars   == <<today, stateFile, procs>>
wtVars    == <<wtDisk, wtGitCalls, wtLast>>
dispVars  == <<dispFiles, dispArgv, dispPhase, dispChild, dispExit>>
bgVars    == <<bgDir, bgClock, bgLast>>
ffVars    == <<ffRepo, ffLast>>
gsVars    == <<gsEnv, gsDisk, gsLast>>
odVars    == <<odDesk, odDirs, odStored, odRun, odLast>>
tcVars    == <<tcToday, tcCall>>
cmdVars   == <<agLast>>
gdVars    == <<gdEnv, gdLast>>
ghVars    == <<ghWindows, ghLast>>
cqVars    == <<cqImage, cqOut>>
ccVars    == <<closers>>
lsVars    == <<lsDir, lsLast>>
coreVars  == <<agentVars, jsonVars, fuzzyVars, dayVars, wtVars>>
restVars  == <<dispVars, bgVars, ffVars, gsVars, odVars, tcVars, cmdVars, gdVars, ghVars, cqVars, ccVars, lsVars>>
dispFrame == <<coreVars, bgVars, ffVars, gsVars, odVars, tcVars, cmdVars, gdVars, ghVars, cqVars, ccVars, lsVars>>
bgFrame   == <<coreVars, dispVars, ffVars, gsVars, odVars, tcVars, cmdVars, gdVars, ghVars, cqVars, ccVars, lsVars>>
ffFrame   == <<coreVars, dispVars, bgVars, gsVars, odVars, tcVars, cmdVars, gdVars, ghVars, cqVars, ccVars, lsVars>>
gsFrame   == <<coreVars, dispVars, bgVars, ffVars, odVars, tcVars, cmdVars, gdVars, ghVars, cqVars, ccVars, lsVars>>
odFrame   == <<coreVars, dispVars, bgVars, ffVars, gsVars, tcVars, cmdVars, gdVars, ghVars, cqVars, ccVars, lsVars>>
tcFrame   == <<coreVars, dispVars, bgVars, ffVars, gsVars, odVars, cmdVars, gdVars, ghVars, cqVars, ccVars, lsVars>>
cmdFrame  == <<coreVars, dispVars, bgVars, ffVars, gsVars, odVars, tcVars, gdVars, ghVars, cqVars, ccVars, lsVars>>
gdFrame   == <<coreVars, dispVars, bgVars, ffVars, gsVars, odVars, tcVars, cmdVars, ghVars, cqVars, ccVars, lsVars>>
ghFrame   == <<coreVars, dispVars, bgVars, ffVars, gsVars, odVars, tcVars, cmdVars, gdVars, cqVars, ccVars, lsVars>>
cqFrame   == <<coreVars, dispVars, bgVars, ffVars, gsVars, odVars, tcVars, cmdVars, gdVars, ghVars, ccVars, lsVars>>
ccFrame   == <<coreVars, dispVars, bgVars, ffVars, gsVars, odVars, tcVars, cmdVars, gdVars, ghVars, cqVars, lsVars>>
lsFrame   == <<coreVars, dispVars, bgVars, ffVars, gsVars, odVars, tcVars, cmdVars, gdVars, ghVars, cqVars, ccVars>>
cmdOther  == <<jsonVars, fuzzyVars, dayVars, wtVars, dispVars, bgVars, ffVars, gsVars, odVars, tcVars, gdVars, ghVars, cqVars, ccVars, lsVars>>
ccOther   == <<jsonVars, fuzzyVars, dayVars, wtVars, dispVars, bgVars, ffVars, gsVars, odVars, tcVars, cmdVars, gdVars, ghVars, cqVars, lsVars>>
vars == <<coreVars, restVars>>

-----------------------------------------------------------------------------
(* Bounds *)

MaxClock  == 1      \* the clock runs over 0..MaxClock
MaxHandle == 6      \* the tmux server hands out pane handles %0 .. %(MaxHandle-1)
MaxPanes  == 2      \* round trip: a session value has at most this many panes
MaxNames  == 2      \* fuzzy match: at most this many orgs, and repos per org
MaxRuns   == 3      \* start_the_day runs, and Ghostty windows opened, at most this many times
MaxDay    == 2      \* start_the_day: the calendar runs over days 1..MaxDay
MaxCalls  == 3      \* ensure_worktree is called at most this many times
MaxBgTime == 6      \* desktop background: the clock runs over 0..MaxBgTime
MaxSpan   == 13     \* get_next_monday: dates within MaxSpan days of date.min and date.max

-----------------------------------------------------------------------------
(* Python values *)

None == <<>>
Some(x) == <<x>>
\* a path holds no file, or a file with some content
NoFile == <<>>
File(content) == <<content>>

Digits == {"0", "1", "2", "3", "4", "5", "6", "7", "8", "9"}

DigitValue(c) ==
    CASE c = "0" -> 0 [] c = "1" -> 1 [] c = "2" -> 2 [] c = "3" -> 3
      [] c = "4" -> 4 [] c = "5" -> 5 [] c = "6" -> 6 [] c = "7" -> 7
      [] c = "8" -> 8 [] c = "9" -> 9

\* str.lower() on one character of the model's alphabet
LowerChar(c) ==
    CASE c = "A" -> "a" [] c = "B" -> "b" [] c = "M" -> "m" [] OTHER -> c

\* str.lower()
Lower(s) == [i \in 1..Len(s) |-> LowerChar(s[i])]

\* the Python expression  sub in s
Contains(sub, s) ==
    \E i \in 0..(Len(s) - Len(sub)) : SubSeq(s, i + 1, i + Len(sub)) = sub

\* str.isdigit()
IsDigit(s) == Len(s) > 0 /\ \A i \in 1..Len(s) : s[i] \in Digits

RECURSIVE ParseInt(_)
\* int(s) for a string of decimal digits
ParseInt(s) ==
    IF Len(s) = 0 THEN 0
    ELSE 10 * ParseInt(SubSeq(s, 1, Len(s) - 1)) + DigitValue(s[Len(s)])

-----------------------------------------------------------------------------
(* workspace.py: fuzzy workspace matching *)

\* a variant that compares without folding case
MatchingNames_CaseSensitive(query, names) ==
    {n \in names : Contains(query, n)}

\* [n for n in names if query.lower() in n.lower()]
MatchingNames(query, names) ==
    {n \in names : Contains(Lower(query), Lower(n))}

\* a variant that compares without folding case
ExactNames_CaseSensitive(query, matching) ==
    {n \in matching : n = query}

\* [n for n in matching if n.lower() == query.lower()]
ExactNames(query, matching) ==
    {n \in matching : Lower(n) = Lower(query)}

\* one round of the match: the org round or the repo round.
\* Returns <<"ok", name>>, <<"none">> or <<"ambiguous">>.
ResolveName(query, names) ==
    LET matching == MatchingNames(query, names)
        exact    == ExactNames(query, matching)
    IN  IF Cardinality(matching) = 0 THEN <<"none">>
        ELSE IF Cardinality(matching) > 1
             THEN IF Cardinality(exact) = 1
                  THEN <<"ok", CHOOSE n \in exact : TRUE>>
                  ELSE <<"ambiguous">>
             ELSE <<"ok", CHOOSE n \in matching : TRUE>>

\* fuzzy_match_workspace: workspaces maps org name -> repo name -> path.
\* The ValueError outcomes are the statuses other than "ok".
fuzzy_match_workspace(query_org, query_repo, workspaces) ==
    LET o == ResolveName(query_org, DOMAIN workspaces)
    IN  IF o[1] = "none" THEN [status |-> "no_org"]
        ELSE IF o[1] = "ambiguous" THEN [status |-> "ambiguous_org"]
        ELSE LET org   == o[2]
                 repos == workspaces[org]
                 r     == ResolveName(query_repo, DOMAIN repos)
             IN  IF r[1] = "none" THEN [status |-> "no_repo"]
                 ELSE IF r[1] = "ambiguous" THEN [status |-> "ambiguous_repo"]
                 ELSE [status |-> "ok", org |-> org, repo |-> r[2],
                       path |-> repos[r[2]]]

-----------------------------------------------------------------------------
(* worktree.py: git worktree creation *)

\* States of a worktree directory: missing, a directory without a .git
\* entry, a directory holding a .git entry
WtStates == {"absent", "plain", "worktree"}

\* ensure_worktrees_dir: the sibling directory {repo}-worktrees
ensure_worktrees_dir(workspace_path) == <<workspace_path, "-worktrees">>

\* a variant that never accepts an existing directory
IsValidWorktree_Never(state) == FALSE

\* worktree_path.exists() and (worktree_path / ".git").exists()
IsValidWorktree(state) == state = "worktree"

\* ensure_worktree.  disk maps path -> directory state, gitOk tells whether
\* "git worktree add" succeeds if it is run.  Returns the path, the new
\* disk, whether the call returned (ok) or raised RuntimeError, and the
\* number of git commands run.
ensure_worktree(workspace_path, worktree_name, worktrees_dir, disk, gitOk) ==
    LET worktree_path == <<worktrees_dir, worktree_name>>
    IN  IF IsValidWorktree(disk[worktree_path])
        THEN [path |-> worktree_path, disk |-> disk, ok |-> TRUE, git |-> 0]
        ELSE \* a directory without .git is removed first (shutil.rmtree)
             IF gitOk
             THEN [path |-> worktree_path,
                   disk |-> [disk EXCEPT ![worktree_path] = "worktree"],
                   ok |-> TRUE, git |-> 1]
             ELSE [path |-> worktree_path,
                   disk |-> [disk EXCEPT ![worktree_path] = "absent"],
                   ok |-> FALSE, git |-> 1]

-----------------------------------------------------------------------------
(* session.py: session records and their JSON form *)

AgentPane(id, pane_index, command, is_main, worktree_path, tmux_pane_id) ==
    [id |-> id, pane_index |-> pane_index, command |-> command,
     is_main |-> is_main, worktree_path |-> worktree_path,
     tmux_pane_id |-> tmux_pane_id]

AgentSession(session_id, workspace_path, repo_name, org_name, created_at, panes, window_id, tmux_session_name) ==
    [session_id |-> session_id, workspace_path |-> workspace_path,
     repo_name |-> repo_name, org_name |-> org_name,
     created_at |-> created_at, panes |-> panes, window_id |-> window_id,
     tmux_session_name |-> tmux_session_name]

\* JSON values: null, or a value tagged with its JSON type
JNull == <<"null">>
JStr(x) == <<"string", x>>
JNum(x) == <<"number", x>>
JBool(x) == <<"bool", x>>

\* json.dump of an Optional[str] value: None becomes null
JOptStr(v) == IF v = None THEN JNull ELSE JStr(v[1])

\* json.dump of an Optional[int] value: None becomes null
JOptNum(v) == IF v = None THEN JNull ELSE JNum(v[1])

\* json.load of a value that the dataclass declares Optional
PyOpt(j) == IF j = JNull THEN None ELSE Some(j[2])

\* json.load of any other value
PyVal(j) == j[2]

\* asdict + json.dump of one pane
PaneToJson(p) ==
    [id |-> JStr(p.id), pane_index |-> JNum(p.pane_index),
     command |-> JStr(p.command), is_main |-> JBool(p.is_main),
     worktree_path |-> JOptStr(p.worktree_path),
     tmux_pane_id |-> JOptStr(p.tmux_pane_id)]

\* a variant that does not read the tmux pane handle back
PaneFromJson_NoHandle(j) ==
    AgentPane(PyVal(j.id), PyVal(j.pane_index), PyVal(j.command),
              PyVal(j.is_main), PyOpt(j.worktree_path), None)

\* AgentPane(**p) on one decoded pane object
PaneFromJson(j) ==
    AgentPane(PyVal(j.id), PyVal(j.pane_index), PyVal(j.command),
              PyVal(j.is_main), PyOpt(j.worktree_path),
              PyOpt(j.tmux_pane_id))

\* AgentSession.save: the document written to {session_id}.json
SessionToJson(s) ==
    [session_id |-> JStr(s.session_id),
     workspace_path |-> JStr(s.workspace_path),
     repo_name |-> JStr(s.repo_name), org_name |-> JStr(s.org_name),
     created_at |-> JStr(s.created_at),
     panes |-> [i \in 1..Len(s.panes) |-> PaneToJson(s.panes[i])],
     window_id |-> JOptNum(s.window_id),
     tmux_session_name |-> JOptStr(s.tmux_session_name)]

\* AgentSession.load on an existing document
SessionFromJson(j) ==
    AgentSession(PyVal(j.session_id), PyVal(j.workspace_path),
                 PyVal(j.repo_name), PyVal(j.org_name), PyVal(j.created_at),
                 [i \in 1..Len(j.panes) |-> PaneFromJson(j.panes[i])],
                 PyOpt(j.window_id), PyOpt(j.tmux_session_name))

\* find_pane_by_target: <<pane, index>> (index counted from 1 here) or None
find_pane_by_target(session, target) ==
    LET target_lower == Lower(target)
        n == Len(session.panes)
        mains == {i \in 1..n : session.panes[i].is_main}
        hits  == {i \in 1..n : Contains(target_lower, Lower(session.panes[i].id))}
        Min(S) == CHOOSE i \in S : \A k \in S : i <= k
    IN  IF target_lower = <<"m", "a", "i", "n">> /\ mains # {}
        THEN <<session.panes[Min(mains)], Min(mains)>>
        ELSE IF IsDigit(target) /\ ParseInt(target) < n
        THEN <<session.panes[ParseInt(target) + 1], ParseInt(target) + 1>>
        ELSE IF hits # {}
        THEN <<session.panes[Min(hits)], Min(hits)>>
        ELSE None

-----------------------------------------------------------------------------
(* tmux.py, layout.py: the tmux server and pane layout creation *)

\* the worktree names create_layout uses, and the text they put in pane ids
WorktreeNames == {"M", "001", "002", "003", "004"}

NameChars(name) ==
    CASE name = "M" -> <<"M">>
      [] name = "001" -> <<"0", "0", "1">>
      [] name = "002" -> <<"0", "0", "2">>
      [] name = "003" -> <<"0", "0", "3">>
      [] name = "004" -> <<"0", "0", "4">>

\* f"{name}-{repo_name}"
PaneId(name, repo_name) == NameChars(name) \o <<"-">> \o repo_name

\* the state threaded through create_layout: the disk, the tmux server,
\* the panes built so far, the handle returned by the last tmux command
\* (out) and whether an error has been raised (ok = FALSE)
LayoutCtx(disk, server, next) ==
    [disk |-> disk, tmux |-> server, next |-> next, panes |-> <<>>,
     out |-> 0, ok |-> TRUE]

\* create_session: tmux new-session fails when the name is taken
create_session(c, session_name) ==
    IF ~c.ok THEN c
    ELSE IF c.tmux[session_name] # {} THEN [c EXCEPT !.ok = FALSE]
    ELSE [c EXCEPT !.tmux[session_name] = {c.next}, !.next = c.next + 1,
                   !.out = c.next]

\* split_pane_horizontal / split_pane_vertical on the pane held by
\* panes[index] (index counted from 1): a new pane in the same session
split_pane(c, index) ==
    IF ~c.ok THEN c
    ELSE LET pane_id == c.panes[index].tmux_pane_id[1]
             holders == {s \in DOMAIN c.tmux : pane_id \in c.tmux[s]}
         IN  IF holders = {} THEN [c EXCEPT !.ok = FALSE]
             ELSE LET s == CHOOSE s \in holders : TRUE
                  IN  [c EXCEPT !.tmux[s] = @ \cup {c.next},
                                !.next = c.next + 1, !.out = c.next]

\* the ensure_worktree call of one create_layout branch; gitFail names the
\* worktree whose "git worktree add" fails, if any
WorktreeStep(c, workspace_path, name, gitFail) ==
    IF ~c.ok THEN c
    ELSE LET r == ensure_worktree(workspace_path, name,
                                  ensure_worktrees_dir(workspace_path),
                                  c.disk, gitFail # name)
         IN  [c EXCEPT !.disk = r.disk, !.ok = r.ok]

\* the AgentPane built by a create_layout branch from the last handle
NewPane(c, workspace_path, name, index, command, repo_name) ==
    AgentPane(PaneId(name, repo_name), index, command, name = "M",
              Some(<<ensure_worktrees_dir(workspace_path), name>>),
              Some(c.out))

\* panes.append(AgentPane(...))
AppendPane(c, workspace_path, name, index, command, repo_name) ==
    IF ~c.ok THEN c
    ELSE [c EXCEPT !.panes = Append(@, NewPane(c, workspace_path, name,
                                               index, command, repo_name))]

\* a variant that appends the second 003 record instead of re-assigning
ReplacePane3_Append(c, workspace_path, command, repo_name) ==
    IF ~c.ok THEN c
    ELSE [c EXCEPT !.panes = Append(@, NewPane(c, workspace_path, "003", 3,
                                               command, repo_name))]

\* panes[3] = AgentPane(...)  (position 4 counted from 1)
ReplacePane3(c, workspace_path, command, repo_name) ==
    IF ~c.ok THEN c
    ELSE [c EXCEPT !.panes[4] = NewPane(c, workspace_path, "003", 3,
                                        command, repo_name)]

\* create_layout: the final context; ok = FALSE when a command raised
create_layout(num_subagents, workspace_path, command, repo_name, tmux_session_name, disk, server, next, gitFail) ==
    LET w  == workspace_path
        c0 == LayoutCtx(disk, server, next)
        \* main pane
        c1 == WorktreeStep(c0, w, "M", gitFail)
        c2 == create_session(c1, tmux_session_name)
        c3 == AppendPane(c2, w, "M", 0, command, repo_name)
        \* first subagent: split right from main
        a1 == WorktreeStep(c3, w, "001", gitFail)
        a2 == split_pane(a1, 1)
        a3 == AppendPane(a2, w, "001", 1, command, repo_name)
        c4 == IF num_subagents >= 1 THEN a3 ELSE c3
        \* second subagent: split down from pane 001
        b1 == WorktreeStep(c4, w, "002", gitFail)
        b2 == split_pane(b1, 2)
        b3 == AppendPane(b2, w, "002", 2, command, repo_name)
        c5 == IF num_subagents >= 2 THEN b3 ELSE c4
        \* third subagent: split down from pane 002
        d1 == WorktreeStep(c5, w, "003", gitFail)
        d2 == split_pane(d1, 3)
        d3 == AppendPane(d2, w, "003", 3, command, repo_name)
        c6 == IF num_subagents >= 3 THEN d3 ELSE c5
        \* fourth subagent: split pane 001 again, re-assign pane 3, then
        \* split the new pane for pane 004
        e1 == WorktreeStep(c6, w, "004", gitFail)
        e2 == split_pane(e1, 2)
        e3 == ReplacePane3(e2, w, command, repo_name)
        e4 == split_pane(e3, 4)
        e5 == AppendPane(e4, w, "004", 4, command, repo_name)
        c7 == IF num_subagents >= 4 THEN e5 ELSE c6
    IN  c7

-----------------------------------------------------------------------------
(* cli.py: the agent manager commands *)

\* f"auto-agent-{timestamp}" with the timestamp formatted to the second
SessionId(t) == <<"auto-agent-", t>>

SessionIds == {SessionId(t) : t \in 0..MaxClock}

\* discover_workspaces(): the repositories found under ~/git
AgentWorkspaces == (<<"a">> :> (<<"b">> :> <<"a", "b">>))

AgentPaths == {<<"a", "b">>}

WorktreePaths ==
    {<<ensure_worktrees_dir(w), n>> : w \in AgentPaths, n \in WorktreeNames}

\* the org / repo arguments tried on the command line
SpawnQueries == {<<<<"a">>, <<"B">>>>, <<<<>>, <<"x">>>>}

\* the worktrees whose creation may be made to fail
GitFailures == {"none", "M", "002"}

\* the target arguments tried on the command line
Targets ==
    {<<"m", "a", "i", "n">>, <<"M", "a", "i", "n">>, <<"0">>, <<"1">>,
     <<"0", "0", "1">>, <<"0", "0", "2">>, <<"M">>, <<"x">>}

\* the command argument of spawn
AgentCommand == "claude"

\* the --session arguments tried on the command line
SessionArgs == {None} \cup {Some(sid) : sid \in SessionIds}

\* get_most_recent_session: the file that sorts last by name, or None
get_most_recent_session(files) ==
    LET present == {t \in 0..MaxClock : files[SessionId(t)] # NoFile}
    IN  IF present = {} THEN None
        ELSE Some(SessionId(CHOOSE t \in present : \A u \in present : u <= t))

\* "Get session": the id of the session a command works on, or None when
\* the command stops (FileNotFoundError or "No active session found")
SelectSession(files, sessionArg) ==
    IF sessionArg # None
    THEN IF files[sessionArg[1]] # NoFile THEN sessionArg ELSE None
    ELSE get_most_recent_session(files)

\* a variant that takes every session to exist
session_exists_Always(server, session_name) == TRUE

\* session_exists
session_exists(server, session_name) == server[session_name] # {}

\* kill_pane: the pane leaves its session; a session without panes is gone
kill_pane(server, pane_id) ==
    [s \in DOMAIN server |-> server[s] \ {pane_id}]

PaneAlive(server, pane_id) == \E s \in DOMAIN server : pane_id \in server[s]

\* a variant that filters on the main flag instead of the id
RemovePane_ByFlag(panes, pane) ==
    LET Keep(p) == p.is_main # pane.is_main IN SelectSeq(panes, Keep)

\* session.panes = [p for p in session.panes if p.id != pane.id]
RemovePane(panes, pane) ==
    LET Keep(p) == p.id # pane.id IN SelectSeq(panes, Keep)

Tick ==
    /\ clock < MaxClock
    /\ clock' = clock + 1
    /\ UNCHANGED <<sessionFiles, tmux, nextPane, worktrees, lastExit>>

\* cmd_spawn with arguments org, repo, --subagents n
Spawn(query_org, query_repo, n, gitFail) ==
    /\ UNCHANGED clock
    /\ LET m == fuzzy_match_workspace(query_org, query_repo, AgentWorkspaces)
           session_id == SessionId(clock)
       IN  IF m.status # "ok"
           THEN /\ lastExit' = 1
                /\ UNCHANGED <<sessionFiles, tmux, nextPane, worktrees>>
           ELSE LET c == create_layout(n, m.path, AgentCommand, m.repo,
                                       session_id, worktrees, tmux,
                                       nextPane, gitFail)
                    session == AgentSession(session_id, m.path, m.repo,
                                            m.org, clock, c.panes, None,
                                            Some(session_id))
                IN  /\ c.next <= MaxHandle
                    /\ worktrees' = c.disk
                    /\ tmux' = c.tmux
                    /\ nextPane' = c.next
                    /\ IF c.ok
                       THEN /\ sessionFiles' =
                                 [sessionFiles EXCEPT ![session_id] =
                                      File(SessionToJson(session))]
                            /\ lastExit' = 0
                       ELSE /\ UNCHANGED sessionFiles
                            /\ lastExit' = 1

\* cmd_close with arguments target, --session
Close(sessionArg, target) ==
    /\ UNCHANGED <<clock, nextPane, worktrees>>
    /\ LET sel == SelectSession(sessionFiles, sessionArg)
       IN  IF sel = None
           THEN /\ lastExit' = 1
                /\ UNCHANGED <<sessionFiles, tmux>>
           ELSE
           LET session == SessionFromJson(sessionFiles[sel[1]][1])
               result  == find_pane_by_target(session, target)
           IN  IF \/ session.tmux_session_name = None
                  \/ ~session_exists(tmux, session.tmux_session_name[1])
                  \/ result = None
                  \/ result[1].tmux_pane_id = None
                  \/ ~PaneAlive(tmux, result[1].tmux_pane_id[1])
               THEN /\ lastExit' = 1
                    /\ UNCHANGED <<sessionFiles, tmux>>
               ELSE LET pane  == result[1]
                        panes == RemovePane(session.panes, pane)
                    IN  /\ tmux' = kill_pane(tmux, pane.tmux_pane_id[1])
                        /\ sessionFiles' =
                             [sessionFiles EXCEPT ![sel[1]] =
                                IF panes # <<>>
                                THEN File(SessionToJson(
                                         [session EXCEPT !.panes = panes]))
                                ELSE NoFile]
                        /\ lastExit' = 0

\* cmd_kill with arguments session, --force; response is the answer typed
\* at the prompt
Kill(sessionArg, force, response) ==
    /\ UNCHANGED <<clock, nextPane, worktrees>>
    /\ LET sel == SelectSession(sessionFiles, sessionArg)
       IN  IF sel = None
           THEN /\ lastExit' = 1
                /\ UNCHANGED <<sessionFiles, tmux>>
           ELSE
           LET session == SessionFromJson(sessionFiles[sel[1]][1])
           IN  IF ~force /\ response # "y"
               THEN /\ lastExit' = 0
                    /\ UNCHANGED <<sessionFiles, tmux>>
               ELSE /\ tmux' =
                         IF /\ session.tmux_session_name # None
                            /\ session_exists(tmux,
                                              session.tmux_session_name[1])
                         THEN [tmux EXCEPT
                                 ![session.tmux_session_name[1]] = {}]
                         ELSE tmux
                    /\ sessionFiles' = [sessionFiles EXCEPT ![sel[1]] = NoFile]
                    /\ lastExit' = 0

AgentInit ==
    /\ clock = 0
    /\ sessionFiles = [s \in SessionIds |-> NoFile]
    /\ tmux = [s \in SessionIds |-> {}]
    /\ nextPane = 0
    /\ worktrees = [p \in WorktreePaths |-> "absent"]
    /\ lastExit = 0

-----------------------------------------------------------------------------
(* Session round trip: AgentSession.save then AgentSession.load *)

JsonIds == {"s1", "s2"}

\* the pane values tried, optional fields set or None
JsonPanes ==
    {AgentPane(<<"M", "-", "b">>, i, "claude", m, w, t) :
        i \in {0, 1}, m \in BOOLEAN,
        w \in {None, Some("/wt/M")}, t \in {None, Some("%0")}}

JsonPaneLists == UNION {[1..n -> JsonPanes] : n \in 0..MaxPanes}

\* the session values tried
JsonSessions ==
    {AgentSession(id, "/git/a/b", "b", "a", "2026-01-21T00:00:00", ps, w, t) :
        id \in JsonIds, ps \in JsonPaneLists,
        w \in {None, Some(7)}, t \in {None, Some("tm")}}

\* session.save()
JsonSave ==
    /\ jDisk' = [jDisk EXCEPT ![jSession.session_id] =
                                  File(SessionToJson(jSession))]
    /\ UNCHANGED <<jSession, jLoaded>>

\* AgentSession.load(session_id); a missing file raises FileNotFoundError
JsonLoad(session_id) ==
    /\ jLoaded' = IF jDisk[session_id] = NoFile THEN None
                  ELSE Some(SessionFromJson(jDisk[session_id][1]))
    /\ UNCHANGED <<jSession, jDisk>>

JsonInit ==
    /\ jSession \in JsonSessions
    /\ jDisk = [id \in JsonIds |-> NoFile]
    /\ jLoaded = None

-----------------------------------------------------------------------------
(* Fuzzy matching as a function of its arguments *)

FzNames == {<<"a">>, <<"A">>, <<"a", "b">>}

FzQueries == {<<>>, <<"a">>, <<"A">>, <<"b">>, <<"a", "b">>, <<"A", "b">>,
              <<"b", "a">>}

FzNameSets ==
    {S \in SUBSET FzNames : S # {} /\ Cardinality(S) <= MaxNames}

\* the directory trees tried: org name -> set of repo names
FzTrees == UNION {[orgs -> FzNameSets] : orgs \in FzNameSets}

\* discover_workspaces on such a tree: org name -> repo name -> path
WorkspaceDict(tree) ==
    [o \in DOMAIN tree |-> [r \in tree[o] |-> <<o, r>>]]

FuzzyCall ==
    /\ fzResult = None
    /\ fzResult' = Some(fuzzy_match_workspace(fzInput.org, fzInput.repo,
                                              WorkspaceDict(fzInput.tree)))
    /\ UNCHANGED fzInput

FuzzyInit ==
    /\ fzInput \in [org : FzQueries, repo : FzQueries, tree : FzTrees]
    /\ fzResult = None

-----------------------------------------------------------------------------
(* start_the_day.py: the daily routine and its once-a-day gate *)

\* datetime.date.isoformat()
IsoDate(d) == <<"2026-11-", d>>

Quote(v) == <<"\"", v, "\"">>

\* a variant that keeps the quotes around a value
StripQuotes_Keep(v) == v

\* value.strip().strip("\"'") on a quoted value
StripQuotes(v) == IF Len(v) = 3 /\ v[1] = "\"" /\ v[3] = "\"" THEN v[2] ELSE v

\* write_toml_simple: a title comment, a "# Generated on <now>" comment, a
\* blank line, then one key = "value" line per key
write_toml_simple(config, now) ==
    <<<<"#", "start_the_day.py execution state">>, <<"#", "Generated on", now>>, <<>>>>
      \o [i \in 1..Cardinality(DOMAIN config) |->
             LET key == CHOOSE k \in DOMAIN config : TRUE
             IN  <<key, "=", Quote(config[key])>>]

\* parse_toml_simple: the key = value lines, comments and blanks skipped
parse_toml_simple(content) ==
    LET IsKv(line) == Len(line) = 3 /\ line[1] # "#" /\ line[2] = "="
        kv == SelectSeq(content, IsKv)
    IN  [k \in {kv[i][1] : i \in 1..Len(kv)} |->
            StripQuotes(kv[CHOOSE i \in 1..Len(kv) :
                              /\ kv[i][1] = k
                              /\ \A j \in (i + 1)..Len(kv) : kv[j][1] # k][3])]

\* load_execution_state: {} when the file does not exist
load_execution_state(file) ==
    IF file = NoFile THEN <<>> ELSE parse_toml_simple(file[1])

\* already_ran_today: config.get("last_run_date") == get_today_date()
already_ran_today(file, date) ==
    LET config == load_execution_state(file)
    IN  /\ "last_run_date" \in DOMAIN config
        /\ config["last_run_date"] = IsoDate(date)

\* update_execution_state: the file written for the given date at instant now
update_execution_state(file, date, now) ==
    LET config == load_execution_state(file)
        keys   == DOMAIN config \cup {"last_run_date"}
    IN  File(write_toml_simple(
            [k \in keys |-> IF k = "last_run_date" THEN IsoDate(date)
                            ELSE config[k]], now))

\* the commands start_the_day runs, in order
DailyTasks == <<"organize_desktop", "update_desktop_background", "launch_apps">>

\* what a task command can do: exit 0, exit non-zero (CalledProcessError),
\* or fail to start (FileNotFoundError)
TaskOutcomes == {"ok", "nonzero", "raise"}

\* a variant in which run_command does not catch CalledProcessError
CommandReturns_OnlyOk(outcome) == outcome = "ok"

\* run_command returns normally: CalledProcessError is caught and reported
CommandReturns(outcome) == outcome \in {"ok", "nonzero"}

Runs == 1..MaxRuns

NotStarted ==
    [pc |-> "idle", force |-> FALSE, startDay |-> 0, doneDay |-> 0,
     log |-> <<>>, result |-> "none", exit |-> 0]

\* start_the_day(): the run_command calls in order, given what each command
\* would do; an exception other than CalledProcessError ends the routine
RECURSIVE start_the_day(_, _)
start_the_day(outcomes, log) ==
    LET k == Len(log) + 1
    IN  IF k > Len(DailyTasks) THEN log
        ELSE LET entry == [cmd |-> DailyTasks[k], outcome |-> outcomes[k]]
             IN  IF CommandReturns(outcomes[k])
                 THEN start_the_day(outcomes, Append(log, entry))
                 ELSE Append(log, entry)

\* the routine raised: its last command did not return
Raised(log) == log # <<>> /\ ~CommandReturns(log[Len(log)].outcome)

\* main up to the gate: parse the arguments, check already_ran_today.
\* Invocations are numbered in the order they start.
StartRun(p, force) ==
    /\ procs[p].pc = "idle"
    /\ \A q \in Runs : q < p => procs[q].pc # "idle"
    /\ procs' = [procs EXCEPT ![p] =
          IF ~force /\ already_ran_today(stateFile, today)
          THEN [@ EXCEPT !.pc = "done", !.force = force, !.startDay = today,
                         !.result = "already", !.exit = 0]
          ELSE [@ EXCEPT !.pc = "routine", !.force = force,
                         !.startDay = today]]
    /\ UNCHANGED <<today, stateFile>>

\* main: start_the_day() runs; an exception reaches main, which exits 1
RunRoutine(p, outcomes) ==
    /\ procs[p].pc = "routine"
    /\ LET log == start_the_day(outcomes, <<>>)
       IN  procs' = [procs EXCEPT ![p] =
              IF Raised(log)
              THEN [@ EXCEPT !.pc = "done", !.log = log, !.result = "error",
                             !.exit = 1]
              ELSE [@ EXCEPT !.pc = "update", !.log = log]]
    /\ UNCHANGED <<today, stateFile>>

\* main after the routine returned: update_execution_state, exit 0;
\* save_execution_state exits 1 when the file cannot be written
RecordRun(p, writable) ==
    /\ procs[p].pc = "update"
    /\ IF writable
       THEN /\ stateFile' = update_execution_state(stateFile, today, <<today, p>>)
            /\ procs' = [procs EXCEPT ![p] =
                            [@ EXCEPT !.pc = "done", !.doneDay = today,
                                      !.result = "ran", !.exit = 0]]
       ELSE /\ stateFile' = stateFile
            /\ procs' = [procs EXCEPT ![p] =
                            [@ EXCEPT !.pc = "done", !.result = "unsaved",
                                      !.exit = 1]]
    /\ UNCHANGED today

\* midnight passes
Midnight ==
    /\ today < MaxDay
    /\ today' = today + 1
    /\ UNCHANGED <<stateFile, procs>>

\* what the three commands do on one run of the routine
RoutineOutcomes == [1..Len(DailyTasks) -> TaskOutcomes]

\* the runs in which every command succeeds, or none can be started
UniformOutcomes == {[i \in 1..Len(DailyTasks) |-> o] : o \in {"ok", "raise"}}

\* the state file is missing, or was written on an earlier day
DayInit ==
    /\ today = 1
    /\ stateFile \in {NoFile, update_execution_state(NoFile, 0, <<0, 0>>)}
    /\ procs = [p \in Runs |-> NotStarted]

\* one invocation: the state file is missing, or was written on an earlier
\* day, or was written today by an earlier invocation
RoutineInit ==
    /\ today = 1
    /\ stateFile \in {NoFile} \cup
                     {update_execution_state(NoFile, d, <<d, 0>>) : d \in 0..1}
    /\ procs = [p \in Runs |-> NotStarted]

-----------------------------------------------------------------------------
(* ensure_worktree called repeatedly on one worktrees directory *)

WtWorkspace == <<"a", "b">>

WtPaths == {<<ensure_worktrees_dir(WtWorkspace), n>> : n \in {"M", "001"}}

\* one call ensure_worktree(workspace, name, worktrees_dir); gitOk is
\* whether "git worktree add" succeeds if it is run
WtEnsure(name, gitOk) ==
    /\ Len(wtLast) < MaxCalls
    /\ LET r == ensure_worktree(WtWorkspace, name,
                                ensure_worktrees_dir(WtWorkspace), wtDisk,
                                gitOk)
       IN  /\ wtDisk' = r.disk
           /\ wtGitCalls' = wtGitCalls + r.git
           /\ wtLast' = Append(wtLast, [name |-> name, ok |-> r.ok,
                                        path |-> r.path, git |-> r.git])

\* something outside the tool changes a worktree directory: removes it,
\* removes its .git entry, or creates it
WtDisturb(path, state) ==
    /\ wtDisk[path] # state
    /\ wtDisk' = [wtDisk EXCEPT ![path] = state]
    /\ UNCHANGED <<wtGitCalls, wtLast>>

WtInit ==
    /\ wtDisk \in [WtPaths -> WtStates]
    /\ wtGitCalls = 0
    /\ wtLast = <<>>

-----------------------------------------------------------------------------
(* lsimons_auto.py: the command dispatcher *)

\* str.replace("_", "-") on a name given as a sequence of pieces
ReplaceUnderscores(name) ==
    [i \in 1..Len(name) |-> IF name[i] = "_" THEN "-" ELSE name[i]]

\* a variant that leaves the name as typed
normalize_action_name_AsTyped(name) == name

\* normalize_action_name
normalize_action_name(name) == ReplaceUnderscores(name)

\* a file of the actions directory: Path.stem and Path.suffix
ActionFile(stem, suffix) == [stem |-> stem, suffix |-> suffix]

InitPy == ActionFile(<<"_", "_", "init", "_", "_">>, ".py")

\* the files tried in the actions directory
ActionFiles ==
    {ActionFile(<<"git", "_", "sync">>, ".py"),
     ActionFile(<<"git", "-", "sync">>, ".py"),
     ActionFile(<<"echo">>, ".py"),
     ActionFile(<<"notes">>, ".sh"),
     InitPy}

\* the orders in which glob("*.py") can yield a set of files
GlobOrders(files) ==
    {order \in [1..Cardinality(files) -> files] :
        \A f \in files : \E i \in DOMAIN order : order[i] = f}

\* discover_actions: action name -> script, a later file of the glob
\* replacing an earlier one of the same name
discover_actions(files, order) ==
    LET py == {f \in files : f.suffix = ".py" /\ f # InitPy}
        names == {ReplaceUnderscores(f.stem) : f \in py}
    IN  [n \in names |->
            order[CHOOSE i \in DOMAIN order :
                     /\ order[i] \in py
                     /\ ReplaceUnderscores(order[i].stem) = n
                     /\ \A j \in DOMAIN order :
                           j > i /\ order[j] \in py
                             => ReplaceUnderscores(order[j].stem) # n]]

HelpFlags == {<<"-", "h">>, <<"-", "-", "help">>}

\* the first arguments and the remaining arguments tried
FirstArgs ==
    {<<"git", "_", "sync">>, <<"git", "-", "sync">>, <<"echo">>,
     <<"_", "_", "init", "_", "_">>, <<"-", "-", "init", "-", "-">>,
     <<"notes">>, <<"tc">>} \cup HelpFlags

RestArgs == {<<>>, <<"a">>, <<"-", "a">>, <<"a", "-">>, <<"a", "a">>}

\* returncode of subprocess.run: 0..255 for an exit, -N for signal N
ExitCodes == 0..255
Signals == {2, 9, 15}

\* a variant that reports only success or failure
ExitStatus_ZeroOrOne(returncode) == IF returncode = 0 THEN 0 ELSE 1

\* sys.exit(n): the low eight bits of n are the exit status
ExitStatus(returncode) == returncode % 256

\* main up to subprocess.run
DispatchStart(order) ==
    /\ dispPhase = "start"
    /\ LET actions == discover_actions(dispFiles, order)
           action_name == normalize_action_name(dispArgv[1])
       IN  IF DOMAIN actions = {}
           THEN dispPhase' = "exited" /\ dispExit' = Some(1)
                  /\ UNCHANGED dispChild
           ELSE IF dispArgv = <<>> \/ dispArgv[1] \in HelpFlags
           THEN dispPhase' = "exited" /\ dispExit' = Some(0)
                  /\ UNCHANGED dispChild
           ELSE IF action_name \notin DOMAIN actions
           THEN dispPhase' = "exited" /\ dispExit' = Some(1)
                  /\ UNCHANGED dispChild
           ELSE /\ dispPhase' = "running"
                /\ dispChild' = Some([script |-> actions[action_name],
                                      args |-> Tail(dispArgv),
                                      ended |-> <<"running">>])
                /\ UNCHANGED dispExit
    /\ UNCHANGED <<dispFiles, dispArgv>>

\* subprocess.run returns; sys.exit(result.returncode)
ChildTerminates(returncode) ==
    /\ dispPhase = "running"
    /\ dispPhase' = "exited"
    /\ dispChild' = Some([dispChild[1] EXCEPT !.ended =
                            IF returncode >= 0 THEN <<"exit", returncode>>
                            ELSE <<"signal", -returncode>>])
    /\ dispExit' = Some(ExitStatus(returncode))
    /\ UNCHANGED <<dispFiles, dispArgv>>

\* KeyboardInterrupt while waiting for the child
DispatchInterrupted ==
    /\ dispPhase = "running"
    /\ dispPhase' = "exited"
    /\ dispChild' = Some([dispChild[1] EXCEPT !.ended = <<"interrupted">>])
    /\ dispExit' = Some(130)
    /\ UNCHANGED <<dispFiles, dispArgv>>

DispInit ==
    /\ dispFiles \in SUBSET ActionFiles
    /\ dispArgv \in {<<>>} \cup {<<a>> \o r : a \in FirstArgs, r \in RestArgs}
    /\ dispPhase = "start"
    /\ dispChild = None
    /\ dispExit = None

-----------------------------------------------------------------------------
(* update_desktop_background.py: generate, set, prune *)

\* the keep_count that main passes to cleanup_old_backgrounds
KeepCount == 5

\* f"background_{now_utc.strftime('%Y%m%d_%H%M%S')}.png"
BackgroundName(now) == <<"background_", now, ".png">>

\* glob("background_*.png")
IsBackground(file) ==
    Len(file.name) = 3 /\ file.name[1] = "background_" /\ file.name[3] = ".png"

\* other files that may lie in the directory
OtherFiles ==
    {[name |-> <<"background.png">>, mtime |-> 0],
     [name |-> <<"notes.txt">>, mtime |-> 0]}

\* a variant that sorts oldest first
NewerFirst_Reversed(a, b) == a < b

\* sorted(key=st_mtime, reverse=True): a comes strictly before b
NewerFirst(a, b) == a > b

\* generate_background: img.save(filepath) creates or overwrites the file
SaveFile(dir, name, mtime) ==
    {f \in dir : f.name # name} \cup {[name |-> name, mtime |-> mtime]}

\* cleanup_old_backgrounds: the directories that can result.  The sort is
\* stable, so files of equal mtime stay in glob order, which is arbitrary:
\* every file that sorts strictly before the cut is kept, and of the files
\* level with the cut as many as still fit.
cleanup_old_backgrounds(dir, keep_count) ==
    LET background_files == {f \in dir : IsBackground(f)}
        Before(f) == {g \in background_files : NewerFirst(g.mtime, f.mtime)}
        sure == {f \in background_files :
                    Cardinality(Before(f))
                      + Cardinality({g \in background_files :
                                        g.mtime = f.mtime}) <= keep_count}
        never == {f \in background_files : Cardinality(Before(f)) >= keep_count}
        level == (background_files \ sure) \ never
    IN  {(dir \ background_files) \cup sure \cup some :
            some \in {s \in SUBSET level :
                         Cardinality(s) =
                           IF Cardinality(background_files) <= keep_count
                           THEN 0
                           ELSE keep_count - Cardinality(sure)}}

\* one run of main.  pillow: the import succeeds; osascript: what setting
\* the picture does; delay: seconds that pass before the image is saved.
UpdateBackground(dry_run, pillow, osascript, delay) ==
    /\ bgClock + delay <= MaxBgTime
    /\ bgClock' = bgClock + delay
    /\ IF ~pillow
       THEN /\ bgDir' = bgDir
            /\ bgLast' = Some([dry_run |-> dry_run, exit |-> 1, path |-> None,
                               before |-> bgDir])
       ELSE LET image_path == BackgroundName(bgClock)
                generated == SaveFile(bgDir, image_path, bgClock + delay)
            IN  IF ~dry_run /\ osascript # "ok"
                THEN /\ bgDir' = generated
                     /\ bgLast' = Some([dry_run |-> dry_run, exit |-> 1,
                                        path |-> Some(image_path),
                                        before |-> bgDir])
                ELSE /\ bgDir' \in cleanup_old_backgrounds(generated, KeepCount)
                     /\ bgLast' = Some([dry_run |-> dry_run, exit |-> 0,
                                        path |-> Some(image_path),
                                        before |-> bgDir])

\* a second passes
BgTick ==
    /\ bgClock < MaxBgTime
    /\ bgClock' = bgClock + 1
    /\ UNCHANGED <<bgDir, bgLast>>

BgInit ==
    /\ bgDir \in SUBSET OtherFiles
    /\ bgClock = 0
    /\ bgLast = None

-----------------------------------------------------------------------------
(* git_sync.py: try_fast_forward *)

\* the commits tried: 1 <- 2 <- 3, 1 <- 4, and 5 with an unrelated history
Commits == 1..5
Parent == <<0, 1, 2, 1, 0>>

RECURSIVE Ancestors(_)
Ancestors(c) == IF c = 0 THEN {} ELSE {c} \cup Ancestors(Parent[c])

\* git merge-base a b: the best common ancestor, None when there is none
\* (the command fails)
MergeBase(a, b) ==
    LET common == Ancestors(a) \cap Ancestors(b)
    IN  IF common = {} THEN None
        ELSE Some(CHOOSE x \in common : \A y \in common : y \in Ancestors(x))

\* what the git queries of try_fast_forward answer for a repository; None
\* is a failed command (get_command_output returns None)
\*   branch:   git rev-parse --abbrev-ref HEAD
\*   status:   git status --porcelain
\*   local:    git rev-parse HEAD
\*   upstream: git rev-parse @{upstream}
GitRepo(branch, status, local, upstream) ==
    [branch |-> branch, status |-> status, local |-> local,
     upstream |-> upstream]

GitRepos ==
    [branch : {None, Some("main"), Some("dev")},
     status : {None, Some(""), Some("M file")},
     local : {None} \cup {Some(c) : c \in Commits},
     upstream : {None} \cup {Some(c) : c \in Commits}]

\* a variant that does not look at the working copy
IsClean_Unchecked(status) == TRUE

\* not (status is None or status != "")
IsClean(status) == status = Some("")

\* try_fast_forward(repo_path, dry_run); mergeOk is whether
\* git merge --ff-only succeeds if it is run.  Gives the value returned,
\* whether the merge command was run, and the repository afterwards.
try_fast_forward(repo, dry_run, mergeOk) ==
    LET no == [returned |-> FALSE, merge |-> FALSE, repo |-> repo]
    IN  IF repo.branch # Some("main") THEN no
        ELSE IF ~IsClean(repo.status) THEN no
        ELSE IF repo.local = None \/ repo.upstream = None THEN no
        ELSE IF repo.local = repo.upstream THEN no
        ELSE IF MergeBase(repo.local[1], repo.upstream[1]) # repo.local THEN no
        ELSE IF dry_run THEN [returned |-> TRUE, merge |-> FALSE, repo |-> repo]
        ELSE IF mergeOk
        THEN [returned |-> TRUE, merge |-> TRUE,
              repo |-> [repo EXCEPT !.local = repo.upstream]]
        ELSE [returned |-> FALSE, merge |-> TRUE, repo |-> repo]

\* one call on the repository
TryFastForward(dry_run, mergeOk) ==
    LET r == try_fast_forward(ffRepo, dry_run, mergeOk)
    IN  /\ ffRepo' = r.repo
        /\ ffLast' = Some([dry_run |-> dry_run, before |-> ffRepo,
                           returned |-> r.returned, merge |-> r.merge])

FfInit ==
    /\ ffRepo \in GitRepos
    /\ ffLast = None

-----------------------------------------------------------------------------
(* git_sync.py: main *)

OwnerConfig(name, local_dir, allow_archived, hostname_filter) ==
    [name |-> name, local_dir |-> local_dir,
     allow_archived |-> allow_archived, hostname_filter |-> hostname_filter]

\* OWNER_CONFIGS: one of the owners configured with defaults, and LAB271
OWNER_CONFIGS ==
    <<OwnerConfig("lsimons", None, TRUE, None),
      OwnerConfig("LAB271", Some("labs"), FALSE, Some("sbp"))>>

\* socket.gethostname(), as a first piece and the rest
Hostnames == {<<"sbp", "-mac">>, <<"home">>}

\* an entry of the disk
Absent == <<"absent">>
PlainDir == <<"dir">>
RepoDir(repo) == <<"repo", repo>>
Exists(disk, path) == disk[path] # Absent
IsRepo(disk, path) == disk[path][1] = "repo"

\* the paths under ~/git
GsPaths ==
    UNION {{<<dir>>, <<dir, "archive">>, <<dir, "r">>, <<dir, "x">>,
            <<dir, "archive", "old">>} : dir \in {"lsimons", "labs"}}

UpstreamUrl(owner, repo) == <<"https://github.com/", owner, repo>>
ForkUrl(repo) == <<"https://github.com/", "lsimons-bot", repo>>

\* a clone: the git state that try_fast_forward reads, the remotes, and
\* the bot/main ref
Clone(branch, status, local, upstream, origin, upstreamRemote, bot, botMain) ==
    [branch |-> branch, status |-> status, local |-> local,
     upstream |-> upstream, origin |-> origin,
     upstreamRemote |-> upstreamRemote, bot |-> bot, botMain |-> botMain]

\* the head of main on GitHub, and what git clone leaves on disk
RemoteHead == 2
FreshClone(owner, repo) ==
    Clone(Some("main"), Some(""), Some(RemoteHead), Some(RemoteHead),
          UpstreamUrl(owner, repo), None, None, None)

\* gh repo list <owner> --json name,isFork,isArchived
GhRepo(name, isFork, isArchived) ==
    [name |-> name, isFork |-> isFork, isArchived |-> isArchived]
GhListings ==
    {<<>>, <<GhRepo("r", FALSE, FALSE), GhRepo("f", TRUE, FALSE),
            GhRepo("old", FALSE, TRUE)>>}

\* get_repos: forks dropped, then the archived or the active ones
get_repos(listing, archive) ==
    LET keep(repo) == ~repo.isFork /\ (repo.isArchived <=> archive)
        kept == SelectSeq(listing, keep)
    IN  [i \in 1..Len(kept) |-> kept[i].name]

\* get_user_forks("lsimons-bot"): "owner/repo" -> fork url
ForkMaps ==
    {<<>>, (<<"lsimons", "r">> :> ForkUrl("r"))}

\* build_fork_context / build_bot_remote_context: None or the fork map
build_fork_context(user, forks) ==
    IF user = Some("lsimons-bot") THEN Some(forks) ELSE None
build_bot_remote_context(user, forks) ==
    IF user # None /\ user # Some("lsimons-bot") THEN Some(forks) ELSE None

\* the state threaded through a run: disk, the state-changing commands
\* issued, the "Would ..." lines printed, exited after sys.exit(1)
Issue(st, cmd) == [st EXCEPT !.log = @ \cup {cmd}]
Would(st, line) == [st EXCEPT !.would = @ \cup {line}]
SetRepo(st, path, repo) == [st EXCEPT !.disk[path] = RepoDir(repo)]
IssueIf(cond, st, cmd) == IF cond THEN Issue(st, cmd) ELSE st
WouldIf(cond, st, line) == IF cond THEN Would(st, line) ELSE st

\* a variant in which the scan of existing repositories always fetches
ScanFetches_Always(dry_run) == TRUE

\* fetch_directory_repos: git fetch --all is run unless dry_run
ScanFetches(dry_run) == ~dry_run

\* the outcome r of try_fast_forward on the clone at path, applied
FastForwarded(st, path, dry_run, r) ==
    SetRepo(WouldIf(dry_run /\ r.returned,
                    IssueIf(r.merge, st, <<"git merge --ff-only", path>>),
                    <<"fast-forward", path>>),
            path, r.repo)

\* try_fast_forward on the clone at path
FastForward(st, path, dry_run) ==
    FastForwarded(st, path, dry_run,
                  try_fast_forward(st.disk[path][2], dry_run, TRUE))

\* configure_fork_remotes
configure_fork_remotes(st, path, fork_url, upstream_url, dry_run, net) ==
    IF dry_run THEN Would(st, <<"reconfigure remotes", path>>)
    ELSE IF ~IsRepo(st.disk, path) THEN st
    ELSE LET repo == st.disk[path][2]
             cmds ==
               (IF repo.origin # fork_url
                THEN {<<"git remote set-url", path, "origin">>} ELSE {})
               \cup (IF repo.upstreamRemote = None
                     THEN {<<"git remote add", path, "upstream">>}
                     ELSE IF repo.upstreamRemote # Some(upstream_url)
                     THEN {<<"git remote set-url", path, "upstream">>}
                     ELSE {})
               \cup {<<"git fetch", path, "origin">>,
                     <<"git fetch", path, "upstream">>,
                     <<"gh repo set-default", path>>}
         IN  [st EXCEPT !.log = @ \cup cmds,
                        !.disk[path] =
                            RepoDir([repo EXCEPT
                                       !.origin = fork_url,
                                       !.upstreamRemote = Some(upstream_url)])]

\* configure_bot_remote; botHead is main of the lsimons-bot fork on GitHub
configure_bot_remote(st, path, bot_fork_url, dry_run, net, botHead) ==
    IF dry_run THEN Would(st, <<"add/update bot remote", path>>)
    ELSE IF ~IsRepo(st.disk, path) THEN st
    ELSE LET repo == st.disk[path][2]
             cmds ==
               (IF repo.bot = None
                THEN {<<"git remote add", path, "bot">>}
                ELSE IF repo.bot # Some(bot_fork_url)
                THEN {<<"git remote set-url", path, "bot">>}
                ELSE {})
               \cup {<<"git fetch", path, "bot">>}
         IN  [st EXCEPT !.log = @ \cup cmds,
                        !.disk[path] =
                            RepoDir([repo EXCEPT
                                       !.bot = Some(bot_fork_url),
                                       !.botMain = IF net THEN Some(botHead)
                                                   ELSE @])]

\* sync_bot_fork
sync_bot_fork(st, path, repo_name, dry_run, net) ==
    IF ~IsRepo(st.disk, path) THEN st
    ELSE LET repo == st.disk[path][2]
             bot_main == repo.botMain
             origin_main == repo.upstream
         IN  IF bot_main = None \/ origin_main = None THEN st
             ELSE IF bot_main = origin_main THEN st
             ELSE IF MergeBase(bot_main[1], origin_main[1]) # bot_main THEN st
             ELSE IF dry_run THEN Would(st, <<"sync bot fork", repo_name>>)
             ELSE IF ~net THEN Issue(st, <<"gh repo sync", repo_name>>)
             ELSE [st EXCEPT !.log = @ \cup {<<"gh repo sync", repo_name>>,
                                             <<"git fetch", path, "bot">>},
                             !.disk[path] =
                                 RepoDir([repo EXCEPT !.botMain = origin_main])]

\* the fork configuration of one repository (for the lsimons-bot user)
ConfigureFork(st, owner, repo, path, ctx, dry_run) ==
    IF ctx.fork # None /\ <<owner, repo>> \in DOMAIN ctx.fork[1]
    THEN configure_fork_remotes(st, path, ctx.fork[1][<<owner, repo>>],
                                UpstreamUrl(owner, repo), dry_run, ctx.net)
    ELSE st

\* the bot configuration of one repository (for the other users)
ConfigureBot(st, owner, repo, path, ctx, dry_run) ==
    IF ctx.bot # None /\ <<owner, repo>> \in DOMAIN ctx.bot[1]
    THEN sync_bot_fork(
             configure_bot_remote(st, path, ctx.bot[1][<<owner, repo>>],
                                  dry_run, ctx.net, ctx.botHead),
             path, repo, dry_run, ctx.net)
    ELSE st

\* the fork and bot configuration of one repository
ConfigureRemotes(st, owner, repo, path, ctx, dry_run) ==
    ConfigureBot(ConfigureFork(st, owner, repo, path, ctx, dry_run),
                 owner, repo, path, ctx, dry_run)

\* sync_repo (called only when not dry_run)
sync_repo(st, owner, repo_name, target_dir, ctx) ==
    LET repo_path == Append(target_dir, repo_name)
    IN  IF Exists(st.disk, repo_path)
        THEN IF ctx.net /\ IsRepo(st.disk, repo_path)
             THEN ConfigureRemotes(
                      FastForward(Issue(st, <<"git fetch --all", repo_path>>),
                                  repo_path, FALSE),
                      owner, repo_name, repo_path, ctx, FALSE)
             ELSE Issue(st, <<"git fetch --all", repo_path>>)
        ELSE IF ctx.net
             THEN ConfigureRemotes(
                      SetRepo(Issue(st, <<"git clone", repo_path>>),
                              repo_path, FreshClone(owner, repo_name)),
                      owner, repo_name, repo_path, ctx, FALSE)
             ELSE Issue(st, <<"git clone", repo_path>>)

\* main: the loop over one list of repositories
RECURSIVE SyncListed(_, _, _, _, _, _)
SyncListed(st, owner, repos, target_dir, ctx, i) ==
    IF i > Len(repos) THEN st
    ELSE LET repo_path == Append(target_dir, repos[i])
             next == IF ctx.dry_run
                     THEN IF Exists(st.disk, repo_path)
                          THEN ConfigureRemotes(
                                   Would(st, <<"sync repo", repo_path>>),
                                   owner, repos[i], repo_path, ctx, TRUE)
                          ELSE Would(st, <<"sync repo", repo_path>>)
                     ELSE sync_repo(st, owner, repos[i], target_dir, ctx)
         IN  SyncListed(next, owner, repos, target_dir, ctx, i + 1)

\* fetch_directory_repos; items is the directory listing still to visit
RECURSIVE fetch_directory_repos(_, _, _, _)
fetch_directory_repos(st, items, visited_repos, ctx) ==
    IF items = {} THEN st
    ELSE LET item == CHOOSE p \in items : TRUE
             next == IF ~IsRepo(st.disk, item) \/ item \in visited_repos
                     THEN st
                     ELSE IF ~ScanFetches(ctx.dry_run)
                     THEN FastForward(Would(st, <<"fetch existing", item>>),
                                      item, ctx.dry_run)
                     ELSE IF ctx.net
                     THEN FastForward(Issue(st, <<"git fetch --all", item>>),
                                      item, ctx.dry_run)
                     ELSE Issue(st, <<"git fetch --all", item>>)
         IN  fetch_directory_repos(next, items \ {item}, visited_repos, ctx)

\* directory.iterdir()
Children(disk, directory) ==
    {p \in DOMAIN disk :
        /\ Len(p) = Len(directory) + 1
        /\ SubSeq(p, 1, Len(directory)) = directory
        /\ Exists(disk, p)}

MakeDir(st, path) ==
    Issue([st EXCEPT !.disk[path] = IF @ = Absent THEN PlainDir ELSE @],
          <<"mkdir", path>>)

\* fetch_directory_repos on a directory that may not exist
ScanDirectory(st, directory, visited_repos, ctx) ==
    IF Exists(st.disk, directory)
    THEN fetch_directory_repos(st, Children(st.disk, directory),
                               visited_repos, ctx)
    ELSE st

\* main: "Create directories"
CreateDirectories(st, owner_dir, archives, ctx) ==
    IF ctx.dry_run
    THEN Would(st, <<"create directories", owner_dir, archives>>)
    ELSE IF archives
    THEN MakeDir(MakeDir(st, owner_dir), Append(owner_dir, "archive"))
    ELSE MakeDir(st, owner_dir)

\* main: the archived repositories of an owner, if asked for and allowed
SyncArchived(st, owner, archived_repos, archive_dir, archives, ctx) ==
    IF archives
    THEN SyncListed(st, owner, archived_repos, archive_dir, ctx, 1)
    ELSE st

\* main: the archive directory is scanned if archives are included
ScanArchive(st, archive_dir, visited_repos, ctx) ==
    IF ctx.include_archive
    THEN ScanDirectory(st, archive_dir, visited_repos, ctx)
    ELSE st

\* main: the body of the loop for one owner, after "Create directories"
SyncOwnerRepos(st, config, owner_dir, ctx) ==
    LET owner == config.name
        archive_dir == Append(owner_dir, "archive")
        archives == ctx.include_archive /\ config.allow_archived
        active_repos == get_repos(ctx.listing, FALSE)
        archived_repos == get_repos(ctx.listing, TRUE)
        visited_repos ==
            {Append(owner_dir, active_repos[i]) : i \in DOMAIN active_repos}
              \cup IF archives
                   THEN {Append(archive_dir, archived_repos[i]) :
                            i \in DOMAIN archived_repos}
                   ELSE {}
    IN  IF ~ctx.gh THEN [st EXCEPT !.exit = 1]
        ELSE ScanArchive(
                 ScanDirectory(
                     SyncArchived(
                         SyncListed(st, owner, active_repos, owner_dir, ctx, 1),
                         owner, archived_repos, archive_dir, archives, ctx),
                     owner_dir, visited_repos, ctx),
                 archive_dir, visited_repos, ctx)

\* main: the body of the loop for one owner
SyncOwner(st, config, ctx) ==
    LET owner_dir == <<IF config.local_dir # None THEN config.local_dir[1]
                       ELSE config.name>>
    IN  IF /\ config.hostname_filter # None
           /\ ctx.hostname[1] # config.hostname_filter[1]
        THEN st
        ELSE SyncOwnerRepos(
                 CreateDirectories(st, owner_dir,
                     ctx.include_archive /\ config.allow_archived, ctx),
                 config, owner_dir, ctx)

\* main: the loop over the owners; get_repos ends the run with sys.exit(1)
RECURSIVE SyncOwners(_, _, _, _)
SyncOwners(st, configs, ctx, i) ==
    IF i > Len(configs) \/ st.exit # 0 THEN st
    ELSE SyncOwners(SyncOwner(st, configs[i], ctx), configs, ctx, i + 1)

\* the end of a run: the disk as the run left it, and what it did
Finish(args, st) ==
    /\ gsDisk' = st.disk
    /\ gsLast' = Some([args |-> args, log |-> st.log, would |-> st.would,
                       exit |-> st.exit])
    /\ UNCHANGED gsEnv

\* one run of git_sync.  args: --dry-run, --include-archive, --owner
GitSync(args) ==
    LET env == gsEnv
        byName(config) == config.name = args.owner[1]
        configs_to_process ==
            IF args.owner # None THEN SelectSeq(OWNER_CONFIGS, byName)
            ELSE OWNER_CONFIGS
        ctx == [dry_run |-> args.dry_run,
                include_archive |-> args.include_archive,
                hostname |-> env.hostname, listing |-> env.listing,
                fork |-> build_fork_context(env.user, env.forks),
                bot |-> build_bot_remote_context(env.user, env.forks),
                botHead |-> env.botHead, gh |-> env.gh, net |-> env.net]
    IN  Finish(args, SyncOwners([disk |-> gsDisk, log |-> {}, would |-> {},
                                 exit |-> 0], configs_to_process, ctx, 1))

GsArgs ==
    [dry_run : BOOLEAN, include_archive : BOOLEAN,
     owner : {None, Some("LAB271")}]

\* the authenticated user, the host name, what gh lists, the forks of
\* lsimons-bot, main of those forks, whether gh and the network work
GsEnvs ==
    {env \in [user : {None, Some("lsimons-bot"), Some("lsimons")},
              hostname : Hostnames, listing : GhListings, forks : ForkMaps,
              botHead : {1}, gh : BOOLEAN, net : BOOLEAN] :
        env.gh \/ env.net}

\* clones found on disk: behind its upstream, with local changes, and with
\* a bot remote whose main is behind origin/main
CloneBehind ==
    Clone(Some("main"), Some(""), Some(1), Some(2),
          UpstreamUrl("lsimons", "r"), None, None, None)
CloneDirty == [CloneBehind EXCEPT !.status = Some("M file")]
CloneWithBot ==
    [CloneBehind EXCEPT !.bot = Some(ForkUrl("r")), !.botMain = Some(1)]

GsInit ==
    /\ gsEnv \in GsEnvs
    /\ \E r \in {Absent, RepoDir(CloneBehind), RepoDir(CloneWithBot)},
          x \in {Absent, RepoDir(CloneBehind)},
          old \in {Absent, RepoDir(CloneDirty)},
          labs \in {Absent, RepoDir(CloneBehind)} :
          gsDisk =
            [p \in GsPaths |->
               IF p = <<"lsimons", "r">> THEN r
               ELSE IF p = <<"lsimons", "x">> THEN x
               ELSE IF p = <<"lsimons", "archive", "old">> THEN old
               ELSE IF p = <<"labs", "r">> THEN labs
               ELSE IF p = <<"lsimons", "archive">>
               THEN IF old # Absent THEN PlainDir ELSE Absent
               ELSE IF p = <<"lsimons">>
               THEN IF old # Absent \/ r # Absent \/ x # Absent
                    THEN PlainDir ELSE Absent
               ELSE IF p = <<"labs">>
               THEN IF labs # Absent THEN PlainDir ELSE Absent
               ELSE Absent]
    /\ gsLast = None

-----------------------------------------------------------------------------
(* organize_desktop.py *)

\* File names are sequences of pieces, the dot of a suffix being a piece.
APng == <<"a", ".", "png">>
APng1 == <<"a", "_", "1", ".", "png">>
ATxt == <<"a", ".", "TXT">>
AMd == <<"a", ".", "md">>
Shot == <<"CleanShot", ".", "PNG">>
DirD == <<"d">>
DirD1 == <<"d", "_", "1">>
Hidden == <<".", "hidden">>

\* str(counter)
NumStr == <<"1", "2", "3", "4">>

\* the creation dates of the items: (year, month, day)
Dates == {<<"2024", "01", "02">>, <<"2025", "03", "04">>}

\* an item: a file or a directory, what it holds, st_birthtime, st_size > 1MB
Item(kind, content, date, big) ==
    [kind |-> kind, content |-> content, date |-> date, big |-> big,
     quality |-> 0]

\* str.lower() on the piece after the dot
LowerPiece(p) ==
    CASE p = "TXT" -> "txt" [] p = "PNG" -> "png" [] OTHER -> p

\* PurePath.suffix and PurePath.stem: split at the last dot that is neither
\* the first nor the last piece
SuffixAt(name) ==
    LET dots == {i \in 2..(Len(name) - 1) : name[i] = "."}
    IN  IF dots = {} THEN Len(name) + 1
        ELSE CHOOSE i \in dots : \A j \in dots : j <= i
PathSuffix(name) == SubSeq(name, SuffixAt(name), Len(name))
PathStem(name) == SubSeq(name, 1, SuffixAt(name) - 1)
SuffixLower(name) == [i \in 1..Len(PathSuffix(name)) |-> LowerPiece(PathSuffix(name)[i])]

ImageSuffixes ==
    {<<".", "png">>, <<".", "jpg">>, <<".", "jpeg">>, <<".", "gif">>,
     <<".", "bmp">>, <<".", "tiff">>}

\* is_cleanshot_image
is_cleanshot_image(name, item) ==
    /\ name[1] = "CleanShot"
    /\ SuffixLower(name) \in ImageSuffixes
    /\ item.big

\* functions as directories: add, replace or remove one entry
Put(dir, key, item) ==
    [k \in DOMAIN dir \cup {key} |-> IF k = key THEN item ELSE dir[k]]
Remove(dir, key) == [k \in DOMAIN dir \ {key} |-> dir[k]]

\* a variant in which no destination is ever found taken
PathExists_Never(stored, path) == FALSE

\* new_path.exists()
PathExists(stored, path) == path \in DOMAIN stored

\* the while loops of organize_file and organize_directory: the first
\* numbered name, counting from counter, that does not exist
RECURSIVE FreePath(_, _, _, _, _)
FreePath(stored, day, stem, suffix, counter) ==
    LET new_path == <<day, stem \o <<"_", NumStr[counter]>> \o suffix>>
    IN  IF PathExists(stored, new_path)
        THEN FreePath(stored, day, stem, suffix, counter + 1)
        ELSE new_path

\* ensure_date_directory: the year, month and day directories
DateDirs(date) == {<<date[1]>>, <<date[1], date[2]>>, date}
ensure_date_directory(dirs, date) == dirs \cup DateDirs(date)

\* the search for a JPEG quality in compress_cleanshot_image
target_size == 1024 * 1024
min_quality == 10
max_quality == 95
Qualities == min_quality..max_quality

\* len(buffer.getvalue()) after img.save(buffer, format="JPEG", quality=q):
\* an image is described by the size of its encoding at each quality,
\* base + slope * q bytes, and 0 bytes at quality dip (dip = 0: none)
Encoder(base, slope, dip) == [base |-> base, slope |-> slope, dip |-> dip]
EncodedSize(image, q) ==
    IF q = image.dip THEN 0 ELSE image.base + image.slope * q

\* a variant of the size test that rejects an encoding of exactly 1 MB
FitsTarget_Strict(size) == size < target_size

\* size <= target_size
FitsTarget(size) == size <= target_size

\* the while loop: best is None while best_buffer is still the empty
\* BytesIO, and Some(q) once it holds the encoding at quality q
RECURSIVE QualitySearch(_, _, _, _)
QualitySearch(image, lo, hi, best) ==
    IF lo > hi THEN best
    ELSE LET mid_quality == (lo + hi) \div 2
         IN  IF FitsTarget(EncodedSize(image, mid_quality))
             THEN QualitySearch(image, mid_quality + 1, hi, Some(mid_quality))
             ELSE QualitySearch(image, lo, mid_quality - 1, best)

\* best_buffer.getvalue() as (quality, size): quality 0 and no bytes when
\* no encoding was kept
BestBuffer(image) ==
    LET best == QualitySearch(image, min_quality, max_quality, None)
    IN  IF best = None THEN [quality |-> 0, size |-> 0]
        ELSE [quality |-> best[1], size |-> EncodedSize(image, best[1])]

\* what Pillow does in one call: the import fails, Image.open or img.save
\* raises OSError, or the image encodes as described
PillowRun(status, image) == [status |-> status, image |-> image]

\* compress_cleanshot_image: the path written and its content
compress_cleanshot_image(name, item, day, pillow) ==
    IF pillow.status = "ok"
    THEN LET written == BestBuffer(pillow.image)
         IN  [path |-> <<day, PathStem(name) \o <<"_", "compressed", ".", "jpg">>>>,
              item |-> IF written.quality = 0
                       THEN [item EXCEPT !.content = "", !.big = FALSE]
                       ELSE [item EXCEPT !.quality = written.quality,
                                         !.big = FALSE]]
    ELSE [path |-> <<day, name>>, item |-> item]

\* convert_txt_to_md
convert_txt_to_md(name, item, day) ==
    [path |-> <<day, PathStem(name) \o <<".", "md">>>>, item |-> item]

\* organize_file, when not dry_run: the desktop and the day directories
organize_file(desk, stored, name, day, pillow) ==
    LET item == desk[name]
    IN  IF is_cleanshot_image(name, item)
        THEN LET out == compress_cleanshot_image(name, item, day, pillow)
             IN  [desk |-> Remove(desk, name),
                  stored |-> Put(stored, out.path, out.item)]
        ELSE IF SuffixLower(name) = <<".", "txt">>
        THEN LET out == convert_txt_to_md(name, item, day)
             IN  [desk |-> Remove(desk, name),
                  stored |-> Put(stored, out.path, out.item)]
        ELSE LET new_path ==
                     IF PathExists(stored, <<day, name>>)
                     THEN FreePath(stored, day, PathStem(name),
                                   PathSuffix(name), 1)
                     ELSE <<day, name>>
             IN  [desk |-> Remove(desk, name),
                  stored |-> Put(stored, new_path, item)]

\* organize_directory, when not dry_run
organize_directory(desk, stored, name, day) ==
    LET new_path ==
            IF PathExists(stored, <<day, name>>)
            THEN FreePath(stored, day, name, <<>>, 1)
            ELSE <<day, name>>
    IN  [desk |-> Remove(desk, name),
         stored |-> Put(stored, new_path, desk[name])]

\* get_items_to_organize: hidden items are skipped (the year directories,
\* skipped too, are held in odDirs)
get_items_to_organize(desk) == {name \in DOMAIN desk : name[1] # "."}

\* organize_desktop_items up to its loop
OrganizeStart(dry_run) ==
    /\ odRun = None
    /\ LET items_to_organize == get_items_to_organize(odDesk)
       IN  odRun' = IF items_to_organize = {} THEN None
                    ELSE Some([dry_run |-> dry_run,
                               items |-> items_to_organize])
    /\ UNCHANGED <<odDesk, odDirs, odStored, odLast>>

\* organize_single_item for one item of the loop, in the order of iterdir
OrganizeItem(name, pillow) ==
    /\ odRun # None
    /\ name \in odRun[1].items
    /\ LET dry_run == odRun[1].dry_run
           item == odDesk[name]
           target_dir == item.date
           moved == IF item.kind = "file"
                    THEN organize_file(odDesk, odStored, name, target_dir,
                                       pillow)
                    ELSE organize_directory(odDesk, odStored, name,
                                            target_dir)
           rest == odRun[1].items \ {name}
       IN  /\ odDirs' = ensure_date_directory(odDirs, item.date)
           /\ IF dry_run THEN UNCHANGED <<odDesk, odStored>>
              ELSE odDesk' = moved.desk /\ odStored' = moved.stored
           /\ odRun' = IF rest = {} THEN None
                       ELSE Some([odRun[1] EXCEPT !.items = rest])
           /\ odLast' = Some([name |-> name, dry_run |-> dry_run])

\* an image that fits from quality 87 down, and one that never fits
OdImages == {Encoder(0, 12000, 0), Encoder(2 * target_size, 0, 0)}
Pillow ==
    {PillowRun("ok", image) : image \in OdImages}
    \cup {PillowRun(status, Encoder(0, 0, 0)) : status \in {"missing", "oserror"}}

\* compress_cleanshot_image on its own, for one image
CqImages ==
    {Encoder(base, slope, dip) :
        base \in {0, 500000, target_size - 95000, target_size,
                  target_size + 1, 2 * target_size},
        slope \in {0, 1, 1000, 12000, 100000},
        dip \in {0, 30, 52, 95}}

CompressImage ==
    /\ cqOut = None
    /\ cqOut' = Some(BestBuffer(cqImage))
    /\ UNCHANGED cqImage

CqInit == cqImage \in CqImages /\ cqOut = None

OdInit ==
    /\ \E names \in SUBSET {APng, ATxt, Shot, DirD, Hidden}, date \in Dates :
          odDesk =
            [n \in names |->
               IF n = DirD THEN Item("dir", "tree", date, FALSE)
               ELSE IF n = Shot
               THEN Item("file", "shot", CHOOSE d \in Dates : d # date, TRUE)
               ELSE Item("file", n[1], date, FALSE)]
    /\ \E names \in SUBSET {APng, APng1, AMd, DirD, DirD1}, day \in Dates :
          /\ odStored =
               [p \in {<<day, n>> : n \in names} |->
                  Item(IF p[2][1] = "d" THEN "dir" ELSE "file", "old", day,
                       FALSE)]
          /\ odDirs \in {IF names = {} THEN {} ELSE DateDirs(day),
                         DateDirs(day)}
    /\ odRun = None
    /\ odLast = None

-----------------------------------------------------------------------------
(* tc.py: get_next_monday *)

\* datetime.date is a day number: date.min is day 1 (0001-01-01) and
\* date.max is day MaxOrdinal (9999-12-31)
MaxOrdinal == 3652059

TcDates == (1..(1 + MaxSpan)) \cup ((MaxOrdinal - MaxSpan)..MaxOrdinal)

\* a variant of weekday() that counts from Sunday
weekday_FromSunday(d) == d % 7

\* date.weekday(): Monday is 0
weekday(d) == (d + 6) % 7

\* date + timedelta(days=n): the date, or OverflowError past date.max
AddDays(d, n) ==
    IF d + n > MaxOrdinal THEN <<"OverflowError">> ELSE <<"date", d + n>>

\* get_next_monday; now is date.today()
get_next_monday(reference_date, now) ==
    LET today_ == IF reference_date # None THEN reference_date[1] ELSE now
        days_until_monday == (7 - weekday(today_)) % 7
    IN  IF weekday(today_) = 0 THEN <<"date", today_>>
        ELSE AddDays(today_, days_until_monday)

GetNextMonday(reference_date) ==
    /\ tcCall' = Some([reference_date |-> reference_date, today |-> tcToday,
                       outcome |-> get_next_monday(reference_date, tcToday)])
    /\ UNCHANGED tcToday

\* the day passes
TcMidnight ==
    /\ tcToday + 1 \in TcDates
    /\ tcToday' = tcToday + 1
    /\ UNCHANGED tcCall

TcInit == tcToday \in TcDates /\ tcCall = None

-----------------------------------------------------------------------------
(* cli.py: send, broadcast, focus; tmux sessions ending on their own *)

\* a command, the session it worked on (or None), and what it did to
\* panes: keys sent to, and the panes or the direction selected
Effect(cmd, session, keys, selected) ==
    [cmd |-> cmd, session |-> session, keys |-> keys, selected |-> selected]

Directions ==
    {<<"l", "e", "f", "t">>, <<"r", "i", "g", "h", "t">>, <<"u", "p">>,
     <<"d", "o", "w", "n">>}

\* the target arguments tried with send and close, and with focus
CmdTargets == {<<"m", "a", "i", "n">>, <<"0", "0", "2">>, <<"1">>, <<"x">>}
FocusTargets == CmdTargets \cup {<<"l", "e", "f", "t">>}

\* "Check tmux session exists"
SessionGone(session) ==
    \/ session.tmux_session_name = None
    \/ ~session_exists(tmux, session.tmux_session_name[1])

\* cmd_send with arguments target, --session
Send(sessionArg, target) ==
    /\ UNCHANGED <<clock, nextPane, worktrees, sessionFiles, tmux>>
    /\ LET sel == SelectSession(sessionFiles, sessionArg)
       IN  IF sel = None
           THEN lastExit' = 1 /\ agLast' = Some(Effect("send", sel, {}, {}))
           ELSE
           LET session == SessionFromJson(sessionFiles[sel[1]][1])
               result  == find_pane_by_target(session, target)
           IN  IF \/ SessionGone(session)
                  \/ result = None
                  \/ result[1].tmux_pane_id = None
                  \/ ~PaneAlive(tmux, result[1].tmux_pane_id[1])
               THEN lastExit' = 1 /\ agLast' = Some(Effect("send", sel, {}, {}))
               ELSE /\ lastExit' = 0
                    /\ agLast' = Some(Effect("send", sel,
                                             {result[1].tmux_pane_id[1]}, {}))

\* cmd_broadcast with arguments --exclude-main, --session: send_keys pane
\* by pane, stopping at the first pane tmux does not know
Broadcast(sessionArg, exclude_main) ==
    /\ UNCHANGED <<clock, nextPane, worktrees, sessionFiles, tmux>>
    /\ LET sel == SelectSession(sessionFiles, sessionArg)
       IN  IF sel = None
           THEN lastExit' = 1 /\ agLast' = Some(Effect("broadcast", sel, {}, {}))
           ELSE
           LET session == SessionFromJson(sessionFiles[sel[1]][1])
               wanted(p) == (exclude_main => ~p.is_main) /\ p.tmux_pane_id # None
               target_panes == SelectSeq(session.panes, wanted)
               dead == {i \in 1..Len(target_panes) : ~PaneAlive(tmux, target_panes[i].tmux_pane_id[1])}
               reached == {i \in 1..Len(target_panes) : \A j \in dead : i < j}
           IN  IF SessionGone(session)
               THEN lastExit' = 1 /\ agLast' = Some(Effect("broadcast", sel, {}, {}))
               ELSE /\ lastExit' = IF dead = {} THEN 0 ELSE 1
                    /\ agLast' = Some(Effect("broadcast", sel,
                          {target_panes[i].tmux_pane_id[1] : i \in reached},
                          {}))

\* cmd_focus with arguments target, --session
Focus(sessionArg, target) ==
    /\ UNCHANGED <<clock, nextPane, worktrees, sessionFiles, tmux>>
    /\ LET sel == SelectSession(sessionFiles, sessionArg)
       IN  IF sel = None
           THEN lastExit' = 1 /\ agLast' = Some(Effect("focus", sel, {}, {}))
           ELSE
           LET session == SessionFromJson(sessionFiles[sel[1]][1])
               result  == find_pane_by_target(session, target)
           IN  IF SessionGone(session)
               THEN lastExit' = 1 /\ agLast' = Some(Effect("focus", sel, {}, {}))
               ELSE IF Lower(target) \in Directions
               THEN /\ lastExit' = 0
                    /\ agLast' = Some(Effect("focus", sel, {}, {Lower(target)}))
               ELSE IF \/ result = None
                       \/ result[1].tmux_pane_id = None
                       \/ ~PaneAlive(tmux, result[1].tmux_pane_id[1])
               THEN lastExit' = 1 /\ agLast' = Some(Effect("focus", sel, {}, {}))
               ELSE /\ lastExit' = 0
                    /\ agLast' = Some(Effect("focus", sel, {},
                                             {result[1].tmux_pane_id[1]}))

\* the tmux session ends without the agent manager (the terminal window is
\* closed, the tmux server is stopped); agLast holds a command only while
\* nothing else has happened since
TmuxSessionEnds(session_name) ==
    /\ tmux[session_name] # {}
    /\ tmux' = [tmux EXCEPT ![session_name] = {}]
    /\ agLast' = None
    /\ UNCHANGED <<clock, nextPane, worktrees, sessionFiles, lastExit>>

\* the program in one pane exits, and the pane with it
PaneExits(pane_id) ==
    /\ PaneAlive(tmux, pane_id)
    /\ tmux' = kill_pane(tmux, pane_id)
    /\ agLast' = None
    /\ UNCHANGED <<clock, nextPane, worktrees, sessionFiles, lastExit>>

-----------------------------------------------------------------------------
(* gdrive_sync.py: back up Google Drive with rclone *)

\* socket.gethostname()
HostPaddo == <<"p", "a", "d", "d", "o">>
GdHostnames == {HostPaddo, <<"p", "A", "d", "d", "o">>, <<"m", "a", "c">>,
                <<"p", "a", "d", "d", "o", "2">>}

\* /Volumes/LSData: nothing there, a plain directory, or a mount point
VolumeStates == {"absent", "directory", "mount"}
ismount(volume) == volume = "mount"
exists(volume) == volume \in {"directory", "mount"}

\* /opt/homebrew/bin/rclone if it exists, otherwise shutil.which("rclone")
rclone_path(env) ==
    IF env.homebrew THEN Some("/opt/homebrew/bin/rclone")
    ELSE IF env.onPath THEN Some("rclone")
    ELSE None

\* the command line handed to subprocess.run
RcloneSync(path) ==
    <<path, "sync", "gdrive:", "/Volumes/LSData/Google Drive", "--verbose">>

\* main(): the run as (commands started, exit status)
gdrive_sync(env) ==
    IF Lower(env.hostname) # HostPaddo
    THEN [ran |-> {}, exit |-> 0]
    ELSE IF ~ismount(env.volume) /\ ~exists(env.volume)
    THEN [ran |-> {}, exit |-> 0]
    ELSE IF rclone_path(env) = None
    THEN [ran |-> {}, exit |-> 1]
    ELSE [ran  |-> {RcloneSync(rclone_path(env)[1])},
          exit |-> IF env.rcloneOk THEN 0 ELSE 1]

GdriveSync ==
    /\ gdLast' = Some(gdrive_sync(gdEnv))
    /\ UNCHANGED gdEnv

\* between runs the volume is plugged in or out, or rclone starts to fail
GdVolumeChanges(volume) ==
    /\ volume # gdEnv.volume
    /\ gdEnv' = [gdEnv EXCEPT !.volume = volume]
    /\ gdLast' = None

GdEnvs ==
    [hostname : GdHostnames, volume : VolumeStates,
     homebrew : BOOLEAN, onPath : BOOLEAN, rcloneOk : BOOLEAN]

GdInit == gdEnv \in GdEnvs /\ gdLast = None

-----------------------------------------------------------------------------
(* agent.py: the Ghostty agent layout *)

\* the AgentPane dataclass of agent.py
GhosttyPane(id, pane_index, command, is_main) ==
    [id |-> id, pane_index |-> pane_index, command |-> command,
     is_main |-> is_main]

\* panes[i] = pane, for a 0-based list index
SetItem(panes, i, pane) == [panes EXCEPT ![i + 1] = pane]

\* create_layout, one block per operator: the panes list and the number of
\* panes of the Ghostty window (every split adds one)
LayoutMain(command, repo_name) ==
    [panes  |-> <<GhosttyPane(PaneId("M", repo_name), 0, command, TRUE)>>,
     window |-> 1]

LayoutSplit(l, name, pane_index, command, repo_name) ==
    [panes  |-> Append(l.panes,
                   GhosttyPane(PaneId(name, repo_name), pane_index, command, FALSE)),
     window |-> l.window + 1]

LayoutFirst(l, n, command, repo_name) ==
    IF n >= 1 THEN LayoutSplit(l, "001", 1, command, repo_name) ELSE l

LayoutSecond(l, n, command, repo_name) ==
    IF n >= 2 THEN LayoutSplit(l, "002", 2, command, repo_name) ELSE l

LayoutThird(l, n, command, repo_name) ==
    IF n >= 3 THEN LayoutSplit(l, "003", 3, command, repo_name) ELSE l

\* the block for four subagents: split right and append 003, split down,
\* assign panes[3], append 004
LayoutFourth(l, n, command, repo_name) ==
    IF n >= 4
    THEN LET right == LayoutSplit(l, "003", 3, command, repo_name)
             renumbered ==
                 [right EXCEPT !.panes = SetItem(right.panes, 3,
                     GhosttyPane(PaneId("003", repo_name), 3, command, FALSE))]
         IN  LayoutSplit(renumbered, "004", 4, command, repo_name)
    ELSE l

ghostty_create_layout(num_subagents, command, repo_name) ==
    LayoutFourth(
        LayoutThird(
            LayoutSecond(
                LayoutFirst(LayoutMain(command, repo_name),
                            num_subagents, command, repo_name),
                num_subagents, command, repo_name),
            num_subagents, command, repo_name),
        num_subagents, command, repo_name)

\* --subagents, choices 1..4
SubagentCounts == 1..4
GhosttyCommands == {"claude", "pi"}
GhosttyRepos == {<<"a">>, <<"b">>, <<"a", "b">>}

\* cmd_spawn up to the layout: one new Ghostty window per call
GhosttyCreateLayout(num_subagents, command, repo_name) ==
    LET l == ghostty_create_layout(num_subagents, command, repo_name)
    IN  /\ Len(ghWindows) < MaxRuns
        /\ ghWindows' = Append(ghWindows, l.window)
        /\ ghLast' = Some([num_subagents |-> num_subagents, panes |-> l.panes])

GhInit == ghWindows = <<>> /\ ghLast = None

-----------------------------------------------------------------------------
(* cli.py: cmd_close processes running at the same time *)

Closers == {1, 2}

\* the targets given to the concurrent closes
CloseTargets == {<<"m", "a", "i", "n">>, <<"0", "0", "1">>, <<"0", "0", "2">>, <<"1">>}

Closer(pc, session, pane, exit) ==
    [pc |-> pc, session |-> session, pane |-> pane, exit |-> exit]

CloserExits(p, status) ==
    closers' = [closers EXCEPT ![p] = [@ EXCEPT !.pc = "done", !.exit = Some(status)]]

\* "Get session": AgentSession.load reads the file
CloseLoad(p, sessionArg) ==
    /\ closers[p].pc = "start"
    /\ LET sel == SelectSession(sessionFiles, sessionArg)
       IN  IF sel = None THEN CloserExits(p, 1)
           ELSE closers' = [closers EXCEPT ![p] =
                   [@ EXCEPT !.pc = "loaded",
                             !.session = Some(SessionFromJson(sessionFiles[sel[1]][1]))]]
    /\ UNCHANGED agentVars

\* "Check tmux session exists" and "Find target pane"
CloseFind(p, target) ==
    /\ closers[p].pc = "loaded"
    /\ LET session == closers[p].session[1]
           result  == find_pane_by_target(session, target)
       IN  IF \/ session.tmux_session_name = None
              \/ ~session_exists(tmux, session.tmux_session_name[1])
              \/ result = None
              \/ result[1].tmux_pane_id = None
           THEN CloserExits(p, 1)
           ELSE closers' = [closers EXCEPT ![p] =
                   [@ EXCEPT !.pc = "found", !.pane = Some(result[1])]]
    /\ UNCHANGED agentVars

\* kill_pane(pane.tmux_pane_id); tmux fails when the pane is gone
CloseKillPane(p) ==
    /\ closers[p].pc = "found"
    /\ LET pane_id == closers[p].pane[1].tmux_pane_id[1]
       IN  IF ~PaneAlive(tmux, pane_id)
           THEN CloserExits(p, 1) /\ UNCHANGED tmux
           ELSE /\ tmux' = kill_pane(tmux, pane_id)
                /\ closers' = [closers EXCEPT ![p] = [@ EXCEPT !.pc = "killed"]]
    /\ UNCHANGED <<clock, sessionFiles, nextPane, worktrees, lastExit>>

\* "Update session": save the loaded record without the pane, or delete
CloseSave(p) ==
    /\ closers[p].pc = "killed"
    /\ LET session == closers[p].session[1]
           panes == RemovePane(session.panes, closers[p].pane[1])
       IN  sessionFiles' =
               [sessionFiles EXCEPT ![session.session_id] =
                   IF panes # <<>>
                   THEN File(SessionToJson([session EXCEPT !.panes = panes]))
                   ELSE NoFile]
    /\ CloserExits(p, 0)
    /\ UNCHANGED <<clock, tmux, nextPane, worktrees, lastExit>>

\* the state left by `spawn a B -n n`, with both closes about to start
CcInit ==
    /\ clock = 0
    /\ lastExit = 0
    /\ \E n \in 1..4 :
          LET sid == SessionId(0)
              c == create_layout(n, <<"a", "b">>, AgentCommand, <<"b">>, sid,
                                 [p \in WorktreePaths |-> "absent"],
                                 [s \in SessionIds |-> {}], 0, "none")
              session == AgentSession(sid, <<"a", "b">>, <<"b">>, <<"a">>, 0,
                                      c.panes, None, Some(sid))
          IN  /\ sessionFiles =
                   [s \in SessionIds |->
                      IF s = sid THEN File(SessionToJson(session)) ELSE NoFile]
              /\ tmux = c.tmux
              /\ nextPane = c.next
              /\ worktrees = c.disk
    /\ closers = [p \in Closers |-> Closer("start", None, None, None)]

-----------------------------------------------------------------------------
(* session.py: list_sessions over the files of the sessions directory *)

\* the text of a file: a JSON document, or text that json.load rejects
JsonText(doc) == <<"json", doc>>
Garbage == <<"garbage">>

\* the fields of the dataclasses: those without and those with a default
SessionRequired ==
    {"session_id", "workspace_path", "repo_name", "org_name", "created_at"}
SessionOptional == {"panes", "window_id", "tmux_session_name"}
PaneRequired == {"id", "pane_index", "command", "is_main"}
PaneOptional == {"worktree_path", "tmux_pane_id"}

\* cls(**data): the keywords must be fields, and every field without a
\* default must be given; otherwise TypeError
Constructs(keys, required, optional) ==
    required \subseteq keys /\ keys \subseteq (required \cup optional)

\* the defaults of the optional fields
WithPaneDefaults(p) ==
    [k \in PaneRequired \cup PaneOptional |->
        IF k \in DOMAIN p THEN p[k] ELSE JNull]
WithSessionDefaults(data) ==
    [k \in SessionRequired \cup SessionOptional |->
        IF k = "panes"
        THEN IF k \in DOMAIN data
             THEN [i \in 1..Len(data[k]) |-> WithPaneDefaults(data[k][i])]
             ELSE <<>>
        ELSE IF k \in DOMAIN data THEN data[k] ELSE JNull]

\* the exception raised when a dataclass cannot be constructed from the keys
LoadFailure == "TypeError"

\* AgentSession.load on the text of an existing file
load(text) ==
    IF text[1] # "json" THEN [status |-> "JSONDecodeError"]
    ELSE LET data == text[2]
             panes == IF "panes" \in DOMAIN data THEN data.panes ELSE <<>>
         IN  IF \E i \in 1..Len(panes) :
                    ~Constructs(DOMAIN panes[i], PaneRequired, PaneOptional)
             THEN [status |-> LoadFailure]
             ELSE IF ~Constructs(DOMAIN data \ {"panes"}, SessionRequired,
                                 SessionOptional \ {"panes"})
             THEN [status |-> LoadFailure]
             ELSE [status |-> "ok",
                   session |-> SessionFromJson(WithSessionDefaults(data))]

\* the loop of list_sessions over sorted(glob("*.json"), reverse=True),
\* from time stamp t down: JSONDecodeError and KeyError are skipped, any
\* other exception ends the call
RECURSIVE ListFrom(_, _, _)
ListFrom(dir, t, sessions) ==
    IF t = 0 THEN [status |-> "ok", sessions |-> sessions]
    ELSE IF dir[t] = NoFile THEN ListFrom(dir, t - 1, sessions)
    ELSE LET r == load(dir[t][1])
         IN  IF r.status = "ok"
             THEN ListFrom(dir, t - 1, Append(sessions, r.session))
             ELSE IF r.status \in {"JSONDecodeError", "KeyError"}
             THEN ListFrom(dir, t - 1, sessions)
             ELSE [status |-> r.status, sessions |-> <<>>]

\* the files are auto-agent-<t>.json for t in 1..MaxFiles
MaxFiles == 3
list_sessions(dir) == ListFrom(dir, MaxFiles, <<>>)

\* the documents tried: a record as save writes it, the same without
\* org_name, with a field from another version of the tool, with a pane
\* that lacks fields, and without the optional fields
SavedDoc(t) ==
    SessionToJson(AgentSession(SessionId(t), <<"a", "b">>, <<"b">>, <<"a">>, t,
        <<AgentPane(<<"M", "-", "b">>, 0, "claude", TRUE, None, Some(0))>>,
        None, Some(SessionId(t))))
Without(doc, keys) == [k \in DOMAIN doc \ keys |-> doc[k]]
LsTexts(t) ==
    {Garbage,
     JsonText(SavedDoc(t)),
     JsonText(Without(SavedDoc(t), {"org_name"})),
     JsonText([k \in DOMAIN SavedDoc(t) \cup {"layout"} |->
                  IF k = "layout" THEN JNull ELSE SavedDoc(t)[k]]),
     JsonText([SavedDoc(t) EXCEPT !.panes = <<[id |-> JStr(<<"M", "-", "b">>)]>>]),
     JsonText(Without(SavedDoc(t), SessionOptional))}

ListSessions ==
    /\ lsLast' = Some(list_sessions(lsDir))
    /\ UNCHANGED lsDir

\* a file is written, replaced or removed
LsWrite(t, file) ==
    /\ lsDir[t] # file
    /\ lsDir' = [lsDir EXCEPT ![t] = file]
    /\ lsLast' = None

LsInit == lsDir = [t \in 1..MaxFiles |-> NoFile] /\ lsLast = None

-----------------------------------------------------------------------------
(* Specifications *)

AgentIdle ==
    /\ clock = 0
    /\ sessionFiles = <<>>
    /\ tmux = <<>>
    /\ nextPane = 0
    /\ worktrees = <<>>
    /\ lastExit = 0
JsonIdle  == jSession = None /\ jDisk = <<>> /\ jLoaded = None
FuzzyIdle == fzInput = None /\ fzResult = None
DayIdle   == today = 0 /\ stateFile = NoFile /\ procs = <<>>
WtIdle    == wtDisk = <<>> /\ wtGitCalls = 0 /\ wtLast = <<>>
CoreIdle  == AgentIdle /\ JsonIdle /\ FuzzyIdle /\ DayIdle /\ WtIdle
DispIdle  ==
    /\ dispFiles = {} /\ dispArgv = <<>> /\ dispPhase = "idle"
    /\ dispChild = None /\ dispExit = None
BgIdle    == bgDir = {} /\ bgClock = 0 /\ bgLast = None
FfIdle    == ffRepo = <<>> /\ ffLast = None
GsIdle    == gsEnv = <<>> /\ gsDisk = <<>> /\ gsLast = None
OdIdle    == odDesk = <<>> /\ odDirs = {} /\ odStored = <<>> /\ odRun = None /\ odLast = None
TcIdle    == tcToday = 0 /\ tcCall = None
CmdIdle   == agLast = None
GdIdle    == gdEnv = <<>> /\ gdLast = None
GhIdle    == ghWindows = <<>> /\ ghLast = None
CqIdle    == cqImage = <<>> /\ cqOut = None
CcIdle    == closers = <<>>
LsIdle    == lsDir = <<>> /\ lsLast = None
RestIdle  == DispIdle /\ BgIdle /\ FfIdle /\ GsIdle /\ OdIdle /\ TcIdle /\ CmdIdle /\ GdIdle /\ GhIdle /\ CqIdle /\ CcIdle /\ LsIdle

\* the agent session manager
Init == AgentInit /\ JsonIdle /\ FuzzyIdle /\ DayIdle /\ WtIdle /\ RestIdle
Next ==
    \/ Tick /\ UNCHANGED <<jsonVars, fuzzyVars, dayVars, wtVars, restVars>>
    \/ \E q \in SpawnQueries, n \in 1..4, gitFail \in GitFailures :
          Spawn(q[1], q[2], n, gitFail)
            /\ UNCHANGED <<jsonVars, fuzzyVars, dayVars, wtVars, restVars>>
    \/ \E sa \in SessionArgs, t \in Targets :
          Close(sa, t) /\ UNCHANGED <<jsonVars, fuzzyVars, dayVars, wtVars, restVars>>
    \/ \E sa \in SessionArgs, force \in BOOLEAN, response \in {"y", "n"} :
          Kill(sa, force, response)
            /\ UNCHANGED <<jsonVars, fuzzyVars, dayVars, wtVars, restVars>>
Spec == Init /\ [][Next]_vars

\* the session round trip
InitJson == AgentIdle /\ JsonInit /\ FuzzyIdle /\ DayIdle /\ WtIdle /\ RestIdle
NextJson ==
    \/ JsonSave /\ UNCHANGED <<agentVars, fuzzyVars, dayVars, wtVars, restVars>>
    \/ \E id \in JsonIds :
          JsonLoad(id) /\ UNCHANGED <<agentVars, fuzzyVars, dayVars, wtVars, restVars>>
SpecJson == InitJson /\ [][NextJson]_vars

\* the daily routine
InitDay == AgentIdle /\ JsonIdle /\ FuzzyIdle /\ DayInit /\ WtIdle /\ RestIdle
NextDay ==
    \/ \E p \in Runs, force \in BOOLEAN :
          StartRun(p, force) /\ UNCHANGED <<agentVars, jsonVars, fuzzyVars, wtVars, restVars>>
    \/ \E p \in Runs, outcomes \in UniformOutcomes :
          RunRoutine(p, outcomes) /\ UNCHANGED <<agentVars, jsonVars, fuzzyVars, wtVars, restVars>>
    \/ \E p \in Runs, writable \in BOOLEAN :
          RecordRun(p, writable) /\ UNCHANGED <<agentVars, jsonVars, fuzzyVars, wtVars, restVars>>
    \/ Midnight /\ UNCHANGED <<agentVars, jsonVars, fuzzyVars, wtVars, restVars>>
SpecDay == InitDay /\ [][NextDay]_vars

\* one invocation of start_the_day, every behaviour of its commands
InitRoutine == AgentIdle /\ JsonIdle /\ FuzzyIdle /\ RoutineInit /\ WtIdle /\ RestIdle
NextRoutine ==
    \/ \E force \in BOOLEAN :
          StartRun(1, force) /\ UNCHANGED <<agentVars, jsonVars, fuzzyVars, wtVars, restVars>>
    \/ \E outcomes \in RoutineOutcomes :
          RunRoutine(1, outcomes) /\ UNCHANGED <<agentVars, jsonVars, fuzzyVars, wtVars, restVars>>
    \/ \E writable \in BOOLEAN :
          RecordRun(1, writable) /\ UNCHANGED <<agentVars, jsonVars, fuzzyVars, wtVars, restVars>>
    \/ Midnight /\ UNCHANGED <<agentVars, jsonVars, fuzzyVars, wtVars, restVars>>
SpecRoutine == InitRoutine /\ [][NextRoutine]_vars

\* worktree creation
InitWt == AgentIdle /\ JsonIdle /\ FuzzyIdle /\ DayIdle /\ WtInit /\ RestIdle
NextWt ==
    \/ \E n \in {"M", "001"}, gitOk \in BOOLEAN :
          WtEnsure(n, gitOk) /\ UNCHANGED <<agentVars, jsonVars, fuzzyVars, dayVars, restVars>>
    \/ \E path \in WtPaths, state \in WtStates :
          WtDisturb(path, state) /\ UNCHANGED <<agentVars, jsonVars, fuzzyVars, dayVars, restVars>>
SpecWt == InitWt /\ [][NextWt]_vars

\* fuzzy workspace matching
InitFuzzy == AgentIdle /\ JsonIdle /\ FuzzyInit /\ DayIdle /\ WtIdle /\ RestIdle
NextFuzzy == FuzzyCall /\ UNCHANGED <<agentVars, jsonVars, dayVars, wtVars, restVars>>
SpecFuzzy == InitFuzzy /\ [][NextFuzzy]_vars

\* the dispatcher
InitDisp ==
    /\ CoreIdle /\ BgIdle /\ FfIdle /\ GsIdle /\ OdIdle /\ TcIdle /\ CmdIdle /\ GdIdle /\ GhIdle /\ CqIdle /\ CcIdle /\ LsIdle
    /\ DispInit
NextDisp ==
    \/ \E order \in GlobOrders(dispFiles) :
          DispatchStart(order) /\ UNCHANGED dispFrame
    \/ \E returncode \in ExitCodes \cup {-n : n \in Signals} :
          ChildTerminates(returncode) /\ UNCHANGED dispFrame
    \/ DispatchInterrupted /\ UNCHANGED dispFrame
SpecDisp == InitDisp /\ [][NextDisp]_vars

\* the desktop background
InitBg ==
    /\ CoreIdle /\ DispIdle /\ FfIdle /\ GsIdle /\ OdIdle /\ TcIdle /\ CmdIdle /\ GdIdle /\ GhIdle /\ CqIdle /\ CcIdle /\ LsIdle
    /\ BgInit
NextBg ==
    \/ \E dry_run, pillow \in BOOLEAN, osascript \in {"ok", "failed", "missing"}, delay \in 0..1 :
          UpdateBackground(dry_run, pillow, osascript, delay) /\ UNCHANGED bgFrame
    \/ BgTick /\ UNCHANGED bgFrame
SpecBg == InitBg /\ [][NextBg]_vars

\* fast-forwarding one repository
InitFf ==
    /\ CoreIdle /\ DispIdle /\ BgIdle /\ GsIdle /\ OdIdle /\ TcIdle /\ CmdIdle /\ GdIdle /\ GhIdle /\ CqIdle /\ CcIdle /\ LsIdle
    /\ FfInit
NextFf ==
    \E dry_run, mergeOk \in BOOLEAN :
       TryFastForward(dry_run, mergeOk) /\ UNCHANGED ffFrame
SpecFf == InitFf /\ [][NextFf]_vars

\* repository synchronisation
InitGs ==
    /\ CoreIdle /\ DispIdle /\ BgIdle /\ FfIdle /\ OdIdle /\ TcIdle /\ CmdIdle /\ GdIdle /\ GhIdle /\ CqIdle /\ CcIdle /\ LsIdle
    /\ GsInit
NextGs ==
    \E args \in GsArgs : GitSync(args) /\ UNCHANGED gsFrame
SpecGs == InitGs /\ [][NextGs]_vars

\* desktop organisation
InitOd ==
    /\ CoreIdle /\ DispIdle /\ BgIdle /\ FfIdle /\ GsIdle /\ TcIdle /\ CmdIdle /\ GdIdle /\ GhIdle /\ CqIdle /\ CcIdle /\ LsIdle
    /\ OdInit
NextOd ==
    \/ \E dry_run \in BOOLEAN : OrganizeStart(dry_run) /\ UNCHANGED odFrame
    \/ \E name \in DOMAIN odDesk, pillow \in Pillow :
          OrganizeItem(name, pillow) /\ UNCHANGED odFrame
SpecOd == InitOd /\ [][NextOd]_vars

\* Technology Council meeting dates
InitTc ==
    /\ CoreIdle /\ DispIdle /\ BgIdle /\ FfIdle /\ GsIdle /\ OdIdle /\ CmdIdle /\ GdIdle /\ GhIdle /\ CqIdle /\ CcIdle /\ LsIdle
    /\ TcInit
NextTc ==
    \/ \E reference_date \in {None} \cup {Some(d) : d \in TcDates} :
          GetNextMonday(reference_date) /\ UNCHANGED tcFrame
    \/ TcMidnight /\ UNCHANGED tcFrame
SpecTc == InitTc /\ [][NextTc]_vars

\* the agent manager commands on one session (the clock stands still)
\* whose tmux session and panes may end on their own
InitCmd == Init
NextCmd ==
    \/ \E n \in 1..2 :
          /\ Spawn(<<"a">>, <<"B">>, n, "none")
          /\ agLast' = Some(Effect("spawn", None, {}, {}))
          /\ UNCHANGED cmdOther
    \/ \E sa \in SessionArgs, t \in CmdTargets :
          /\ Close(sa, t)
          /\ agLast' = Some(Effect("close", SelectSession(sessionFiles, sa), {}, {}))
          /\ UNCHANGED cmdOther
    \/ \E sa \in SessionArgs, force \in BOOLEAN, response \in {"y", "n"} :
          /\ Kill(sa, force, response)
          /\ agLast' = Some(Effect(IF force \/ response = "y" THEN "kill" ELSE "kill declined", SelectSession(sessionFiles, sa), {}, {}))
          /\ UNCHANGED cmdOther
    \/ \E sa \in SessionArgs, t \in CmdTargets :
          Send(sa, t) /\ UNCHANGED cmdOther
    \/ \E sa \in SessionArgs, exclude_main \in BOOLEAN :
          Broadcast(sa, exclude_main) /\ UNCHANGED cmdOther
    \/ \E sa \in SessionArgs, t \in FocusTargets :
          Focus(sa, t) /\ UNCHANGED cmdOther
    \/ \E s \in SessionIds : TmuxSessionEnds(s) /\ UNCHANGED cmdOther
    \/ \E h \in 0..(MaxHandle - 1) : PaneExits(h) /\ UNCHANGED cmdOther
SpecCmd == InitCmd /\ [][NextCmd]_vars

\* the Google Drive backup
InitGd ==
    /\ CoreIdle /\ DispIdle /\ BgIdle /\ FfIdle /\ GsIdle /\ OdIdle /\ TcIdle /\ CmdIdle /\ GhIdle /\ CqIdle /\ CcIdle /\ LsIdle
    /\ GdInit
NextGd ==
    \/ GdriveSync /\ UNCHANGED gdFrame
    \/ \E volume \in VolumeStates : GdVolumeChanges(volume) /\ UNCHANGED gdFrame
SpecGd == InitGd /\ [][NextGd]_vars

\* the Ghostty agent layout
InitGh ==
    /\ CoreIdle /\ DispIdle /\ BgIdle /\ FfIdle /\ GsIdle /\ OdIdle /\ TcIdle /\ CmdIdle /\ GdIdle /\ CqIdle /\ CcIdle /\ LsIdle
    /\ GhInit
NextGh ==
    \E n \in SubagentCounts, command \in GhosttyCommands, repo_name \in GhosttyRepos :
       GhosttyCreateLayout(n, command, repo_name) /\ UNCHANGED ghFrame
SpecGh == InitGh /\ [][NextGh]_vars

\* compressing one CleanShot image
InitCq ==
    /\ CoreIdle /\ DispIdle /\ BgIdle /\ FfIdle /\ GsIdle /\ OdIdle /\ TcIdle /\ CmdIdle /\ GdIdle /\ GhIdle /\ CcIdle /\ LsIdle
    /\ CqInit
NextCq == CompressImage /\ UNCHANGED cqFrame
SpecCq == InitCq /\ [][NextCq]_vars

\* two closes at the same time
InitCc ==
    /\ JsonIdle /\ FuzzyIdle /\ DayIdle /\ WtIdle
    /\ DispIdle /\ BgIdle /\ FfIdle /\ GsIdle /\ OdIdle /\ TcIdle /\ CmdIdle /\ GdIdle /\ GhIdle /\ CqIdle /\ LsIdle
    /\ CcInit
NextCc ==
    \/ \E p \in Closers, sa \in SessionArgs : CloseLoad(p, sa) /\ UNCHANGED ccOther
    \/ \E p \in Closers, t \in CloseTargets : CloseFind(p, t) /\ UNCHANGED ccOther
    \/ \E p \in Closers : CloseKillPane(p) /\ UNCHANGED ccOther
    \/ \E p \in Closers : CloseSave(p) /\ UNCHANGED ccOther
SpecCc == InitCc /\ [][NextCc]_vars

\* listing the sessions
InitLs ==
    /\ CoreIdle /\ DispIdle /\ BgIdle /\ FfIdle /\ GsIdle /\ OdIdle /\ TcIdle /\ CmdIdle /\ GdIdle /\ GhIdle /\ CqIdle /\ CcIdle
    /\ LsInit
NextLs ==
    \/ ListSessions /\ UNCHANGED lsFrame
    \/ \E t \in 1..MaxFiles :
          \E file \in {NoFile} \cup {File(x) : x \in LsTexts(t)} :
             LsWrite(t, file) /\ UNCHANGED lsFrame
SpecLs == InitLs /\ [][NextLs]_vars

-----------------------------------------------------------------------------
(* Properties of the agent session manager *)

\* the session record held by an existing session file
Record(sid) == SessionFromJson(sessionFiles[sid][1])

Persisted == {sid \in SessionIds : sessionFiles[sid] # NoFile}

\* C1: every persisted session record has pairwise-distinct pane ids, for
\* the record saved by spawn with 1..4 subagents and after any closes.
C1_PaneIdsUnique ==
    \A sid \in Persisted :
        \A i, j \in 1..Len(Record(sid).panes) :
            i # j => Record(sid).panes[i].id # Record(sid).panes[j].id

\* a record spawned with four subagents from which the main pane was closed
C1_Witness ==
    \E sid \in Persisted :
        /\ Len(Record(sid).panes) = 4
        /\ \A i \in 1..4 : ~Record(sid).panes[i].is_main

MainCount(sid) ==
    Cardinality({i \in 1..Len(Record(sid).panes) : Record(sid).panes[i].is_main})

\* C2: every persisted session record has exactly one pane with is_main
\* set, whatever panes have been closed.
C2_ExactlyOneMain == \A sid \in Persisted : MainCount(sid) = 1

\* seq without its k-th element
RemoveAt(seq, k) == SubSeq(seq, 1, k - 1) \o SubSeq(seq, k + 1, Len(seq))

\* the step is a spawn that got as far as saving the record of sid
SpawnSaved(sid) ==
    /\ sid = SessionId(clock)
    /\ lastExit' = 0
    /\ \E q \in SpawnQueries, n \in 1..4, g \in GitFailures :
           Spawn(q[1], q[2], n, g)

\* the --session arguments that can select session sid
ArgsFor(sid) ==
    {sa \in {None, Some(sid)} : SelectSession(sessionFiles, sa) = Some(sid)}

\* the step is a confirmed kill of session sid
KillConfirmed(sid) ==
    \E sa \in ArgsFor(sid), force \in BOOLEAN, response \in {"y", "n"} :
        /\ force \/ response = "y"
        /\ Kill(sa, force, response)

\* the step is a declined kill of session sid
KillDeclined(sid) ==
    \E sa \in ArgsFor(sid), response \in {"n"} : Kill(sa, FALSE, response)

\* the step is a close on session sid that closed the target's pane
Closed(sid, target) ==
    /\ lastExit' = 0
    /\ \E sa \in ArgsFor(sid) : Close(sa, target)

\* the file of sid was rewritten with exactly the target's pane removed
RewrittenWithout(sid, target) ==
    LET old  == Record(sid)
        pane == find_pane_by_target(old, target)[1]
    IN  /\ sessionFiles'[sid] # NoFile
        /\ LET new == SessionFromJson(sessionFiles'[sid][1])
           IN  /\ \E k \in 1..Len(old.panes) :
                      /\ old.panes[k] = pane
                      /\ new.panes = RemoveAt(old.panes, k)
               /\ [new EXCEPT !.panes = old.panes] = old

\* C3: a session file is created by spawn only; it is removed exactly by a
\* confirmed kill or by the close of its last pane; a close that leaves a
\* pane rewrites it with exactly the closed pane removed and touches no
\* other file; a declined kill leaves it unchanged.
C3_FileLifecycle ==
    [][\A sid \in SessionIds :
         /\ (sessionFiles[sid] = NoFile /\ sessionFiles'[sid] # NoFile)
               => SpawnSaved(sid)
         /\ (sessionFiles[sid] # NoFile /\ sessionFiles'[sid] = NoFile)
               => \/ KillConfirmed(sid)
                  \/ \E t \in Targets :
                        Closed(sid, t) /\ Len(Record(sid).panes) = 1
         /\ sessionFiles'[sid] = NoFile \/ ~KillConfirmed(sid)
         /\ sessionFiles' = sessionFiles \/ ~KillDeclined(sid)
         /\ \A t \in Targets :
               Closed(sid, t) =>
                  /\ \A other \in SessionIds \ {sid} :
                        sessionFiles'[other] = sessionFiles[other]
                  /\ IF Len(Record(sid).panes) = 1
                     THEN sessionFiles'[sid] = NoFile
                     ELSE RewrittenWithout(sid, t)
      ]_vars

\* one record is down to a single subagent pane while the other session's
\* file is gone again
C3_Witness ==
    /\ lastExit = 0
    /\ \E sid \in Persisted :
          /\ Len(Record(sid).panes) = 1
          /\ ~Record(sid).panes[1].is_main
    /\ \E sid \in SessionIds \ Persisted : sid[2] < clock /\ tmux[sid] = {}

-----------------------------------------------------------------------------
(* Properties of the session round trip *)

\* C4: for every session value, with optional fields set or None, save
\* followed by load of the same session_id yields a session equal to the
\* original field for field, nested pane records included.
C4_RoundTrip == jLoaded # None => jLoaded[1] = jSession

\* a loaded session with the most panes, one without a tmux handle and
\* one with, and the deprecated window id set
C4_Witness ==
    /\ jLoaded # None
    /\ Len(jSession.panes) = 2
    /\ jSession.panes[1].tmux_pane_id = None
    /\ jSession.panes[2].tmux_pane_id # None
    /\ jSession.panes[2].worktree_path = None
    /\ jSession.window_id # None
    /\ jSession.tmux_session_name = None

-----------------------------------------------------------------------------
(* Properties of fuzzy matching *)

\* q occurs in n when case is ignored
ContainsCI(q, n) ==
    \E i \in 0..(Len(n) - Len(q)) :
        \A k \in 1..Len(q) : LowerChar(n[i + k]) = LowerChar(q[k])

\* q equals n when case is ignored
EqualCI(q, n) ==
    Len(q) = Len(n) /\ \A k \in 1..Len(q) : LowerChar(n[k]) = LowerChar(q[k])

Candidates(q, names) == {n \in names : ContainsCI(q, n)}

\* the names the match may settle on: the single candidate, or the single
\* candidate that equals the query when case is ignored
Settled(q, names) ==
    LET cands == Candidates(q, names)
        exact == {n \in cands : EqualCI(q, n)}
    IN  IF Cardinality(cands) = 1 THEN cands
        ELSE IF Cardinality(exact) = 1 THEN exact
        ELSE {}

\* C5: fuzzy_match_workspace returns (org, repo, W[org][repo]) for the
\* single org containing the query case-insensitively (or the single exact
\* match among several) and the repo chosen the same way in that org; it
\* reports "No ... found" exactly when no name contains the query and
\* "Ambiguous ..." exactly when several do and no single exact match
\* exists; a returned name always contains its query.
C5_FuzzyMatchResult ==
    fzResult # None =>
      LET r     == fzResult[1]
          qo    == fzInput.org
          qr    == fzInput.repo
          tree  == fzInput.tree
          orgs  == DOMAIN tree
          orgsS == Settled(qo, orgs)
      IN  /\ (r.status = "no_org") <=> (Candidates(qo, orgs) = {})
          /\ (r.status = "ambiguous_org")
                <=> (Cardinality(Candidates(qo, orgs)) > 1 /\ orgsS = {})
          /\ orgsS # {} =>
               LET o      == CHOOSE o \in orgsS : TRUE
                   reposS == Settled(qr, tree[o])
               IN  /\ (r.status = "no_repo")
                         <=> (Candidates(qr, tree[o]) = {})
                   /\ (r.status = "ambiguous_repo")
                         <=> (/\ Cardinality(Candidates(qr, tree[o])) > 1
                              /\ reposS = {})
                   /\ reposS # {} =>
                         r = [status |-> "ok", org |-> o,
                              repo |-> CHOOSE x \in reposS : TRUE,
                              path |-> <<o, CHOOSE x \in reposS : TRUE>>]
          /\ r.status = "ok" =>
               /\ r.org \in orgs /\ ContainsCI(qo, r.org)
               /\ r.repo \in tree[r.org] /\ ContainsCI(qr, r.repo)

\* a call answered through the exact-match preference in both rounds
C5_Witness ==
    /\ fzResult # None
    /\ fzResult[1].status = "ok"
    /\ Cardinality(Candidates(fzInput.org, DOMAIN fzInput.tree)) > 1
    /\ Cardinality(Candidates(fzInput.repo,
                              fzInput.tree[fzResult[1].org])) > 1

\* the org round settled on some org
OrgSettled(r) == r.status \in {"ok", "no_repo", "ambiguous_repo"}

\* the tie-break of both rounds; "equals" is case-sensitive equality when
\* caseSensitive, equality with case ignored otherwise
TieBreak(caseSensitive) ==
    fzResult # None =>
      LET Same(q, n) == IF caseSensitive THEN q = n ELSE EqualCI(q, n)
          r     == fzResult[1]
          qo    == fzInput.org
          qr    == fzInput.repo
          tree  == fzInput.tree
          orgC  == Candidates(qo, DOMAIN tree)
      IN  /\ Cardinality(orgC) > 1 =>
               /\ OrgSettled(r) \/ r.status = "ambiguous_org"
               /\ OrgSettled(r)
                    <=> Cardinality({n \in orgC : Same(qo, n)}) = 1
          /\ OrgSettled(r) =>
               LET o     == CHOOSE o \in Settled(qo, DOMAIN tree) : TRUE
                   repoC == Candidates(qr, tree[o])
               IN  Cardinality(repoC) > 1 =>
                     /\ r.status \in {"ok", "ambiguous_repo"}
                     /\ (r.status = "ok")
                          <=> Cardinality({n \in repoC : Same(qr, n)}) = 1

\* C6 as stated: with several candidates the match is resolved iff exactly
\* one candidate equals the query case-sensitively, and is ambiguous
\* otherwise.
C6_CaseSensitiveTieBreak == TieBreak(TRUE)

\* C6 amended: with several candidates the match is resolved iff exactly
\* one candidate equals the query when case is ignored, and is ambiguous
\* otherwise.
C6_CaseInsensitiveTieBreak == TieBreak(FALSE)

\* several orgs contain the query and the one chosen differs from it in case
C6_Witness ==
    /\ fzResult # None
    /\ OrgSettled(fzResult[1])
    /\ Cardinality(Candidates(fzInput.org, DOMAIN fzInput.tree)) > 1
    /\ fzInput.org \notin DOMAIN fzInput.tree

-----------------------------------------------------------------------------
(* The daily routine *)

\* invocation p passes from argument parsing to the gate in this step
Starts(p) == procs[p].pc = "idle" /\ procs'[p].pc # "idle"

\* invocation p exits in this step
Finishes(p) == procs[p].pc # "done" /\ procs'[p].pc = "done"

\* some invocation completed the routine and recorded date d
RecordedOn(d) ==
    \E q \in Runs : procs[q].result = "ran" /\ procs[q].doneDay = d

\* the invocation stopped at the gate: exit 0, no task was run
StoppedAtGate(r) ==
    r.pc = "done" /\ r.result = "already" /\ r.exit = 0 /\ r.log = <<>>

Completed(p) ==
    /\ procs[p].result = "ran"
    /\ Len(procs[p].log) = Len(DailyTasks)
    /\ ~Raised(procs[p].log)

\* C8: among the invocations without --force started on one calendar day,
\* at most one runs the daily routine to completion.
C8_AtMostOncePerDay ==
    \A p, q \in Runs :
        /\ p # q
        /\ ~procs[p].force /\ ~procs[q].force
        /\ procs[p].startDay = procs[q].startDay
        /\ Completed(p)
        => ~Completed(q)

\* the state file is written in this step
Rewritten == stateFile' # stateFile

\* the routine of invocation p has returned without raising
Returned(p) == procs[p].pc = "update"

\* the value of last_run_date, read without the program's parser
LastRunDate(file) ==
    IF file = NoFile THEN None
    ELSE LET lines == file[1]
             at == {i \in 1..Len(lines) :
                       Len(lines[i]) = 3 /\ lines[i][1] = "last_run_date"}
         IN  IF at = {} THEN None
             ELSE Some(lines[CHOOSE i \in at : \A j \in at : j <= i][3][2])

\* what C9 says about tasks, the gate and a raising routine: the tasks run
\* in the order of DailyTasks, a non-zero exit does not end the routine,
\* stopping at the gate or raising leaves the file alone (exit 0 and exit 1)
TasksAndFailures(p) ==
    LET log == procs'[p].log
    IN  /\ \A i \in 1..Len(log) : log[i].cmd = DailyTasks[i]
        /\ \A i \in 1..Len(log) :
              log[i].outcome = "nonzero" /\ i < Len(DailyTasks) => Len(log) > i
        /\ procs'[p].pc = "update"
             => /\ Len(log) = Len(DailyTasks)
                /\ \A i \in 1..Len(log) : log[i].outcome \in {"ok", "nonzero"}
        /\ log # <<>> /\ log[Len(log)].outcome = "nonzero"
             => Len(log) = Len(DailyTasks) /\ procs'[p].result # "error"
        /\ Finishes(p) /\ ~Returned(p)
             => /\ ~Rewritten
                /\ \/ StoppedAtGate(procs'[p])
                   \/ /\ procs'[p].result = "error" /\ procs'[p].exit = 1
                      /\ log[Len(log)].outcome = "raise"

-----------------------------------------------------------------------------
(* Worktree creation *)

\* C10: a call of ensure_worktree after an earlier call that returned for
\* the same name, made while the worktree directory has its .git entry,
\* returns the same path, runs no git command and changes nothing on disk.
C10_EnsureWorktreeIdempotent ==
    [][Len(wtLast') = Len(wtLast) + 1
         => LET call == wtLast'[Len(wtLast')]
            IN  \A i \in 1..Len(wtLast) :
                   /\ wtLast[i].name = call.name
                   /\ wtLast[i].ok
                   /\ wtDisk[wtLast[i].path] = "worktree"
                   => /\ call.ok
                      /\ call.path = wtLast[i].path
                      /\ wtGitCalls' = wtGitCalls
                      /\ wtDisk' = wtDisk]_vars

\* the first call created the worktree with git, the second call for the
\* same name returned without running git
C10_Witness ==
    /\ Len(wtLast) >= 2
    /\ wtLast[1].ok /\ wtLast[1].git = 1
    /\ wtLast[2].name = wtLast[1].name
    /\ wtLast[2].ok /\ wtLast[2].git = 0
    /\ wtGitCalls = 1

-----------------------------------------------------------------------------
(* The dispatcher *)

\* C11: when the child of a discovered action terminates with exit status c
\* in 0..255 the dispatcher exits with c, and when the dispatcher is
\* interrupted while the child runs it exits with 130.
C11_ExitCodeForwarded ==
    dispPhase = "exited" /\ dispChild # None
      => LET ended == dispChild[1].ended
         IN  /\ ended[1] = "exit" => dispExit = Some(ended[2])
             /\ ended[1] = "interrupted" => dispExit = Some(130)

\* the child of git-sync exited with 255 and so did the dispatcher
C11_Witness ==
    /\ dispChild # None
    /\ dispChild[1].script.stem = <<"git", "_", "sync">>
    /\ dispChild[1].ended = <<"exit", 255>>
    /\ dispExit = Some(255)

\* the names of the action scripts in the directory, dashes for underscores
DiscoveredNames ==
    {[i \in 1..Len(f.stem) |-> IF f.stem[i] = "_" THEN "-" ELSE f.stem[i]] :
        f \in {g \in dispFiles : g.suffix = ".py" /\ g # InitPy}}

\* the first argument, dashes for underscores, is a discovered name
NamesAnAction ==
    /\ dispArgv # <<>>
    /\ [i \in 1..Len(dispArgv[1]) |->
           IF dispArgv[1][i] = "_" THEN "-" ELSE dispArgv[1][i]]
         \in DiscoveredNames

\* a child is launched exactly for a first argument that names an action;
\* it is a script of that name and gets the remaining arguments in order
LaunchedIffNamed ==
    /\ dispChild # None <=> NamesAnAction
    /\ dispChild # None
         => /\ dispChild[1].script \in dispFiles
            /\ dispChild[1].script.suffix = ".py"
            /\ dispChild[1].script # InitPy
            /\ ReplaceUnderscores(dispChild[1].script.stem)
                 = ReplaceUnderscores(dispArgv[1])
            /\ dispChild[1].args = Tail(dispArgv)

\* C12 as stated: a child is launched iff the first argument names a
\* discovered action, with that script and the remaining arguments; in every
\* other case the dispatcher exits 1.
C12_LaunchOrExitOne ==
    dispPhase # "start"
      => /\ LaunchedIffNamed
         /\ dispChild = None => dispExit = Some(1)

\* C12: a child is launched iff the first argument names a discovered
\* action, with that script and the remaining arguments; in every other
\* case nothing is launched and the dispatcher exits 1, except that with no
\* argument or with -h / --help, and at least one action discovered, it
\* prints the help and exits 0.
C12_LaunchOrExit ==
    dispPhase # "start"
      => /\ LaunchedIffNamed
         /\ dispChild = None
              => dispExit =
                   Some(IF DiscoveredNames # {}
                           /\ (dispArgv = <<>> \/ dispArgv[1] \in HelpFlags)
                        THEN 0 ELSE 1)

\* git_sync was typed, git-sync is the action, and the script got the
\* remaining arguments in the order given
C12_Witness ==
    /\ dispChild # None
    /\ dispArgv = <<<<"git", "_", "sync">>, "a", "-">>
    /\ dispChild[1].script.stem = <<"git", "_", "sync">>
    /\ dispChild[1].args = <<"a", "-">>

-----------------------------------------------------------------------------
(* The desktop background *)

Backgrounds(dir) == {f \in dir : IsBackground(f)}

-----------------------------------------------------------------------------
(* try_fast_forward *)

\* a is an ancestor of b, or b itself
IsAncestor(a, b) == a \in Ancestors(b)

\* the repository is on main, clean, both hashes are known and differ, and
\* the merge base of the two is the local hash
CanFastForward(repo) ==
    /\ repo.branch = Some("main")
    /\ repo.status = Some("")
    /\ repo.local # None /\ repo.upstream # None
    /\ repo.local # repo.upstream
    /\ IsAncestor(repo.local[1], repo.upstream[1])

\* C16: try_fast_forward runs git merge --ff-only only on a repository that
\* is on main, clean, with both hashes known and different and the local
\* hash as merge base; in dry-run it never runs the merge and returns True
\* exactly then; otherwise it returns False and leaves the repository as it
\* was.
C16_FastForwardOnlyWhenSafe ==
    ffLast # None
      => LET call == ffLast[1]
         IN  /\ call.merge => CanFastForward(call.before) /\ ~call.dry_run
             /\ call.dry_run
                  => /\ ~call.merge
                     /\ call.returned <=> CanFastForward(call.before)
                     /\ ffRepo = call.before
             /\ ~CanFastForward(call.before)
                  => ~call.returned /\ ffRepo = call.before
             /\ ffRepo # call.before
                  => call.merge /\ ffRepo.local = call.before.upstream

\* a clean main two commits behind its upstream was fast-forwarded
C16_Witness ==
    /\ ffLast # None
    /\ ffLast[1].before = GitRepo(Some("main"), Some(""), Some(1), Some(3))
    /\ ffLast[1].merge /\ ffLast[1].returned
    /\ ffRepo.local = Some(3)

-----------------------------------------------------------------------------
(* git_sync *)

\* C14: a run of git_sync with --dry-run issues no state-changing command
\* (mkdir, git clone, git fetch, git merge, git remote add or set-url,
\* gh repo sync, gh repo set-default) and leaves ~/git as it was.
DryRunStep == gsLast' # None /\ gsLast'[1].args.dry_run
C14_DryRunChangesNothing ==
    [][DryRunStep => gsLast'[1].log = {} /\ gsDisk' = gsDisk]_vars

\* a dry run over a clone that could be fast-forwarded, with an unlisted
\* clone next to it and a bot fork to sync, printed what it would do
C14_Witness ==
    /\ gsLast # None /\ gsLast[1].args.dry_run
    /\ <<"fast-forward", <<"lsimons", "x">>>> \in gsLast[1].would
    /\ <<"sync bot fork", "r">> \in gsLast[1].would
    /\ <<"create directories", <<"lsimons">>, TRUE>> \in gsLast[1].would
    /\ gsLast[1].log = {}

-----------------------------------------------------------------------------
(* organize_desktop *)

\* C15: with --dry-run organize_desktop changes nothing in the file
\* system: no file or directory under the Desktop is created, moved,
\* renamed, converted or deleted.
C15_DryRunChangesNothing ==
    [][odRun # None /\ odRun[1].dry_run => UNCHANGED <<odDesk, odStored, odDirs>>]_vars

\* the step organizes, for real, a directory or a file that is neither
\* compressed nor converted
IsStandardMove(name) ==
    /\ odRun # None /\ ~odRun[1].dry_run
    /\ name \in odRun[1].items
    /\ name \notin DOMAIN odDesk'
    /\ \/ odDesk[name].kind = "dir"
       \/ /\ ~is_cleanshot_image(name, odDesk[name])
          /\ SuffixLower(name) # <<".", "txt">>

\* <stem>_<N><suffix>, and <name>_<N> for a directory
Numbered(name, kind, n) ==
    IF kind = "dir" THEN name \o <<"_", NumStr[n]>>
    ELSE PathStem(name) \o <<"_", NumStr[n]>> \o PathSuffix(name)

\* the name the claim gives to the moved item
ClaimedName(name, kind, day) ==
    IF <<day, name>> \notin DOMAIN odStored THEN name
    ELSE LET free == {n \in 1..Len(NumStr) : <<day, Numbered(name, kind, n)>> \notin DOMAIN odStored}
         IN  Numbered(name, kind, CHOOSE n \in free : \A m \in free : n <= m)

\* C17: a standard file move or a directory move into a day directory
\* overwrites nothing: every entry that was there keeps its name and
\* content, and the item arrives under its own name if that is free and
\* else under <stem>_<N><suffix> (<name>_<N>) for the smallest free N >= 1.
C17_MoveNeverOverwrites ==
    [][\A name \in DOMAIN odDesk : IsStandardMove(name) =>
          LET item == odDesk[name]
              new_path == <<item.date, ClaimedName(name, item.kind, item.date)>>
          IN  /\ \A p \in DOMAIN odStored : p \in DOMAIN odStored' /\ odStored'[p] = odStored[p]
              /\ DOMAIN odStored' = DOMAIN odStored \cup {new_path}
              /\ new_path \notin DOMAIN odStored
              /\ odStored'[new_path] = item]_vars

\* a.png was moved into a day directory that held a.png and a_1.png, and
\* is stored there as a_2.png next to them
C17_Witness ==
    /\ odLast # None /\ ~odLast[1].dry_run /\ odLast[1].name = APng
    /\ \E day \in Dates :
          /\ {<<day, APng>>, <<day, APng1>>, <<day, <<"a", "_", "2", ".", "png">>>>} \subseteq DOMAIN odStored
          /\ odStored[<<day, APng>>].content = "old"
          /\ odStored[<<day, APng1>>].content = "old"
          /\ odStored[<<day, <<"a", "_", "2", ".", "png">>>>].content = "a"

-----------------------------------------------------------------------------
(* tc *)

\* the date the call started from
CalledOn == IF tcCall[1].reference_date # None THEN tcCall[1].reference_date[1] ELSE tcCall[1].today

\* m is the earliest Monday on or after d: d itself when d is a Monday,
\* otherwise the Monday 1 to 6 days later
EarliestMonday(d, m) ==
    /\ m % 7 = 1
    /\ IF d % 7 = 1 THEN m = d ELSE m - d \in 1..6

\* C20 as stated: get_next_monday(d) returns the earliest Monday on or
\* after d, for every date d.
C20_NextMonday ==
    tcCall # None =>
      /\ tcCall[1].outcome[1] = "date"
      /\ EarliestMonday(CalledOn, tcCall[1].outcome[2])

\* C20: get_next_monday(d) returns the earliest Monday on or after d
\* whenever that Monday is a date (d is a Monday or at least 6 days before
\* date.max, the last Monday being 9999-12-27); for the four days after
\* the last Monday it raises OverflowError.
C20_NextMondayUnlessOverflow ==
    tcCall # None =>
      IF CalledOn <= MaxOrdinal - 4
      THEN /\ tcCall[1].outcome[1] = "date"
           /\ EarliestMonday(CalledOn, tcCall[1].outcome[2])
      ELSE tcCall[1].outcome = <<"OverflowError">>

\* called without a date on a Wednesday, the Monday five days later came
\* back
C20_Witness ==
    /\ tcCall # None /\ tcCall[1].reference_date = None
    /\ tcCall[1].today = 3
    /\ tcCall[1].outcome = <<"date", 8>>

-----------------------------------------------------------------------------
(* find_pane_by_target; commands on a session whose tmux session is gone *)

\* the panes of a record whose id contains the target, case-insensitively
PanesContaining(record, target) ==
    {i \in 1..Len(record.panes) : Contains(Lower(target), Lower(record.panes[i].id))}

\* C18: in every session reachable by spawn and closes, a target that is a
\* case-insensitive substring of exactly one pane's id makes
\* find_pane_by_target return that pane.
C18_UniqueSubstringFindsPane ==
    \A sid \in Persisted, target \in Targets :
        \A i \in PanesContaining(Record(sid), target) :
            PanesContaining(Record(sid), target) = {i}
              => find_pane_by_target(Record(sid), target) = <<Record(sid).panes[i], i>>

\* the tmux server has no pane left of the session that the record names
NoTmuxSession(sid) ==
    /\ Record(sid).tmux_session_name # None
    /\ tmux[Record(sid).tmux_session_name[1]] = {}

\* the step is a command on a session that has a record and no tmux
\* session any more
OnGoneSession(cmds) ==
    /\ agLast' # None /\ agLast'[1].cmd \in cmds
    /\ agLast'[1].session # None
    /\ NoTmuxSession(agLast'[1].session[1])

\* the step exits 1 and does nothing to panes or session files
FailsWithoutEffect ==
    /\ lastExit' = 1
    /\ agLast'[1].keys = {} /\ agLast'[1].selected = {}
    /\ tmux' = tmux /\ sessionFiles' = sessionFiles

\* the step deletes the file of the session it worked on, and exits 0
DeletesSessionFile ==
    /\ sessionFiles' = [sessionFiles EXCEPT ![agLast'[1].session[1]] = NoFile]
    /\ lastExit' = 0

\* C19: when the tmux session of a session is gone, send, broadcast, focus
\* and close exit with status 1 without sending keys, selecting or killing
\* a pane or modifying the session file, while a forced or confirmed kill
\* still deletes the session file.
C19_GoneSession ==
    [][/\ OnGoneSession({"send", "broadcast", "focus", "close"}) => FailsWithoutEffect
       /\ OnGoneSession({"kill"}) => DeletesSessionFile]_vars

\* a session whose tmux session had ended: a broadcast failed on it, its
\* record still there
C19_Witness ==
    /\ agLast # None /\ agLast[1].cmd = "broadcast" /\ lastExit = 1
    /\ agLast[1].session # None /\ agLast[1].session[1] \in Persisted
    /\ NoTmuxSession(agLast[1].session[1])
    /\ Len(Record(agLast[1].session[1]).panes) = 3

-----------------------------------------------------------------------------
(* Properties of gdrive_sync *)

RanRclone == gdLast # None /\ gdLast[1].ran # {}

\* C21: rclone sync is started only on host paddo (in any letter case) with
\* /Volumes/LSData a mounted volume; otherwise the run starts no command.
C21_RcloneOnlyOnPaddoMounted ==
    RanRclone => /\ Lower(gdEnv.hostname) = HostPaddo
                 /\ ismount(gdEnv.volume)

-----------------------------------------------------------------------------
(* Properties of the Ghostty agent layout *)

\* C22: for every n in 1..4 create_layout returns n+1 pane records with
\* pairwise distinct ids, exactly one of them main, each with pane_index
\* equal to its position in the list.
C22_GhosttyLayoutPanes ==
    ghLast # None =>
        LET panes == ghLast[1].panes
            n == ghLast[1].num_subagents
        IN  /\ Len(panes) = n + 1
            /\ \A i, j \in 1..Len(panes) : i # j => panes[i].id # panes[j].id
            /\ Cardinality({i \in 1..Len(panes) : panes[i].is_main}) = 1
            /\ \A i \in 1..Len(panes) : panes[i].pane_index = i - 1

-----------------------------------------------------------------------------
(* Properties of the CleanShot compression *)

\* the encoded size does not decrease as the quality rises
Monotone(image) ==
    \A p, q \in Qualities : p <= q => EncodedSize(image, p) <= EncodedSize(image, q)

\* the qualities whose encoding is at most 1,048,576 bytes
Fitting(image) == {q \in Qualities : EncodedSize(image, q) <= 1048576}

\* C23: if the encoded size is non-decreasing in the quality and some quality
\* in 10..95 gives at most 1,048,576 bytes, the file written is the encoding
\* at the greatest such quality and is at most 1,048,576 bytes.
C23_GreatestFittingQuality ==
    (cqOut # None /\ Monotone(cqImage) /\ Fitting(cqImage) # {}) =>
        /\ cqOut[1].quality \in Fitting(cqImage)
        /\ \A q \in Fitting(cqImage) : q <= cqOut[1].quality
        /\ cqOut[1].size = EncodedSize(cqImage, cqOut[1].quality)
        /\ cqOut[1].size <= 1048576

\* an image that fits up to a quality strictly inside 10..95, which the
\* search found
C23_Witness ==
    /\ cqOut # None /\ Monotone(cqImage)
    /\ Fitting(cqImage) \notin {{}, Qualities}
    /\ cqOut[1].quality \in Fitting(cqImage)
    /\ cqOut[1].quality + 1 \notin Fitting(cqImage)

-----------------------------------------------------------------------------
(* Properties of the tmux panes of a session *)

\* the tmux_pane_id values of a session record
RecordHandles(session) ==
    {session.panes[i].tmux_pane_id[1] : i \in 1..Len(session.panes)}

\* C24: after every step of spawn, close and kill the panes alive in the
\* tmux session of a persisted record are exactly the tmux_pane_id values of
\* the record (so spawn with n subagents leaves n+1 panes), and a close that
\* deletes the record by removing its last pane leaves no tmux session.
C24_TmuxPanesMatchRecord ==
    [][\A sid \in SessionIds :
         /\ sessionFiles'[sid] # NoFile =>
               tmux'[sid] = RecordHandles(SessionFromJson(sessionFiles'[sid][1]))
         /\ (sessionFiles[sid] # NoFile /\ sessionFiles'[sid] = NoFile
              /\ \E t \in Targets : Closed(sid, t))
               => tmux'[sid] = {}]_vars

-----------------------------------------------------------------------------
(* Properties of concurrent closes *)

\* both closes have finished, each closed a pane of the same session, and
\* the two panes differ
BothClosed ==
    /\ \A p \in Closers : closers[p].pc = "done" /\ closers[p].exit = Some(0)
    /\ closers[1].session[1].session_id = closers[2].session[1].session_id
    /\ closers[1].pane[1].id # closers[2].pane[1].id

\* C25: when two closes of different panes of one session have both
\* finished, the session file lists neither closed pane.
C25_NoRemovalLost ==
    BothClosed =>
        LET sid == closers[1].session[1].session_id
        IN  sessionFiles[sid] # NoFile =>
               \A i \in 1..Len(Record(sid).panes), p \in Closers :
                   Record(sid).panes[i].id # closers[p].pane[1].id

-----------------------------------------------------------------------------
(* Properties of the convert and compress branches of organize_file *)

\* the step organizes (not as a dry run) a .txt file or a CleanShot image
IsProcessedMove(name) ==
    /\ odRun # None /\ ~odRun[1].dry_run
    /\ name \in odRun[1].items
    /\ name \notin DOMAIN odDesk'
    /\ odDesk[name].kind = "file"
    /\ \/ is_cleanshot_image(name, odDesk[name])
       \/ SuffixLower(name) = <<".", "txt">>

\* C26: organizing a .txt file or a CleanShot image overwrites nothing in
\* the day directory: every file that was there, a <stem>.md or
\* <stem>_compressed.jpg included, keeps its content.
C26_ProcessedMoveNeverOverwrites ==
    [][\A name \in DOMAIN odDesk : IsProcessedMove(name) =>
          \A p \in DOMAIN odStored :
              p \in DOMAIN odStored' /\ odStored'[p] = odStored[p]]_vars

\* the step is organize_file (not as a dry run) removing name from the Desktop
IsFileRemoval(name) ==
    /\ odRun # None /\ ~odRun[1].dry_run
    /\ name \in odRun[1].items
    /\ odDesk[name].kind = "file"
    /\ name \notin DOMAIN odDesk'

\* C27: whenever organize_file removes a file from the Desktop, the day
\* directory holds a non-empty file with its content, as found or as a
\* JPEG encoding of it, also when no quality in 10..95 fits in 1 MB.
C27_OriginalKeptSomewhere ==
    [][\A name \in DOMAIN odDesk : IsFileRemoval(name) =>
          \E p \in DOMAIN odStored' :
              /\ p[1] = odDesk[name].date
              /\ odStored'[p].content # ""
              /\ odStored'[p].content = odDesk[name].content]_vars

-----------------------------------------------------------------------------
(* Properties of the worktrees of concurrent sessions *)

\* the worktree directories of the panes of a session record
RecordWorktrees(session) ==
    {session.panes[i].worktree_path : i \in 1..Len(session.panes)} \ {None}

\* C28: two sessions of the same repository that exist at the same time
\* have no worktree directory in common.
C28_SessionsShareNoWorktree ==
    \A s1, s2 \in Persisted :
        (s1 # s2 /\ Record(s1).workspace_path = Record(s2).workspace_path)
            => RecordWorktrees(Record(s1)) \cap RecordWorktrees(Record(s2)) = {}

-----------------------------------------------------------------------------
(* Properties of list_sessions *)

\* the time stamps of the files that hold a valid session record
ValidStamps == {t \in 1..MaxFiles : lsDir[t] # NoFile /\ load(lsDir[t][1]).status = "ok"}

\* seq lists the sessions of the stamps in S, greatest stamp first
NewestFirst(seq, S) ==
    /\ Len(seq) = Cardinality(S)
    /\ \A i \in 1..Len(seq) :
          \E t \in S : /\ seq[i] = load(lsDir[t][1]).session
                       /\ Cardinality({u \in S : u > t}) = i - 1

\* C29: whatever the files contain, list_sessions does not raise: it skips
\* every file that is not a valid session record and returns all valid
\* sessions, newest first.
C29_ListSessionsSkipsInvalid ==
    lsLast # None =>
        /\ lsLast[1].status = "ok"
        /\ NewestFirst(lsLast[1].sessions, ValidStamps)

-----------------------------------------------------------------------------
(* Properties of a failing spawn *)

\* C30: whenever spawn ends, with or without an error, every tmux session
\* it created has a persisted session record.
C30_SpawnedSessionHasRecord ==
    [][\A sid \in SessionIds :
          (tmux[sid] = {} /\ tmux'[sid] # {}) => sessionFiles'[sid] # NoFile]_vars

=============================================================================
